---- MODULE Spec2Model ----
(***************************************************************************)
(* A model of the reactive runtime of the package `internal` of sig:      *)
(* signals, computed nodes (memos and effects), the height-indexed heap,  *)
(* the scheduler, the batcher, the effect lanes and the tracker.          *)
(*                                                                         *)
(* The whole runtime is one record, rt, so that the operations of the     *)
(* code (Insert, Link, Write, recompute, ...) are operators from a        *)
(* runtime state to a runtime state and compose the way the calls do.     *)
(* rt.stack holds the activations in progress (a Flush, a compute body),  *)
(* innermost last.  Fields named h_... are history: they record what      *)
(* happened (what a body observed, what was drained) and no operation     *)
(* of the runtime reads them.                                             *)
(***************************************************************************)
EXTENDS Integers, Sequences, FiniteSets, TLC

\* ---------------------------------------------------------------- bounds
\* signal values written by the host range over 0..MaxVal
MaxVal == 1
\* the host issues writes while the scheduler's clock is below MaxClock
MaxClock == 2
\* nesting depth of Batch calls made by the host
MaxBatchDepth == 2
\* number of heap buckets the model keeps (heights of the program stay below)
HeapSlots == 6
\* a drain goes on while an effect lane holds fewer than MaxQueue closures
MaxQueue == 3
\* the history counts the runs of a node up to MaxRuns
MaxRuns == 2
\* the number of effects a re-run body may create over a behaviour
MaxNested == 3
\* the number of pass bodies Scheduler.Run executes before it gives up
\* (the source's 1e5, scaled down)
LoopLimit == 4

\* the value of a computed node before its first run (Go's nil)
Nil == -1

\* ------------------------------------------------------- the host program
\* The user program the runtime is driven by: three signals, four memos and
\* two effects, holding the shapes of the repository's tests: a diamond
\* (a -> b, a -> c, b,c -> d, and an effect e on b, c and d), an effect that
\* writes another signal (e writes w), a memo whose dependencies change with
\* what it reads (m), and an effect whose dependencies change between runs (g).
\*
\*   a, f, w := NewSignal(..)
\*   b := NewComputed(func() { return 2 * a.Read() })
\*   c := NewComputed(func() { return 4 * a.Read() })
\*   d := NewComputed(func() { return b.Read() + c.Read() })
\*   m := NewComputed(func() { if f.Read() >= 1 && d.Read() > 0 { return 1 }; return 0 })
\*   e := NewEffect(func() { x := b.Read(); c.Read(); d.Read(); w.Write(x / 2) })
\*   g := NewEffect(func() { if m.Read() == 0 { w.Read() } })
DiamondSignals == {"a", "f", "w"}
DiamondMemos == {"b", "c", "d", "m"}
DiamondEffects == {"e", "g"}
CreationOrder == <<"b", "c", "d", "m", "e", "g">>

\* A second program, holding the shapes of the owner tests (nested owners,
\* sibling effects, nested effects, disposal during effect execution):
\*
\*   s, n, k := NewSignal(0)
\*   o := NewOwner(); o.OnDispose(od)
\*   x := NewEffect(func() { if s.Read() >= 1 { o.Dispose() } })
\*   o.Run(func() {
\*       OnCleanup(co1); OnCleanup(co2)
\*       NewOwner().OnDispose(ocd)                                  // oc
\*       p := NewEffect(func() {
\*           s.Read(); n.Read()
\*           NewEffect(func() { n.Read(); OnCleanup(cq) })          // q
\*           OnCleanup(cp1); OnCleanup(cp2) })
\*       r := NewEffect(func() { k.Read(); OnCleanup(cr) })
\*       t := NewComputed(func() {
\*           NewEffect(func() { k.Read(); OnCleanup(cu) })          // u
\*           OnCleanup(ct); return k.Read() + 1 })
\*   })
\*
\* Every run of p creates a new effect q and every run of t a new effect u:
\* the objects are told apart by a number, q1, q2, ... and u1, u2, ...
OwnerSignals == {"s", "n", "k"}
Inc(base, i) == base \o ToString(i)
Incs(base) == {Inc(base, i) : i \in 1..MaxNested}
OwnerMemos == {"t"}
OwnerEffects == {"x", "p", "r"} \cup Incs("q") \cup Incs("u")
PureOwners == {"o", "oc"}
\* the function a node runs: the incarnations of q run q's, of u run u's
Base(c) == IF c \in Incs("q") THEN "q" ELSE IF c \in Incs("u") THEN "u" ELSE c


\* A third program, holding the shape of the test of OnError (owners nested
\* in owners, a panic in an effect below them):
\*
\*   es := NewSignal(0)
\*   top := NewOwner(); top.OnError(l1)
\*   top.Run(func() {
\*       mid := NewOwner(); mid.OnError(l1); mid.OnError(l2)
\*       mid.Run(func() {
\*           in := NewOwner()
\*           in.Run(func() {
\*               z := NewEffect(func() { if es.Read() >= 1 { panic(1) } })
\*               v := NewEffect(func() {
\*                   es.Read()
\*                   Untrack(func() { if es.Read() >= 1 { panic(2) } }) })
\*           })
\*       })
\*   })
\*   bare := NewOwner()
\*
\* after which the host writes es and calls in.Run(func() { panic(3) }) and
\* bare.Run(func() { panic(4) }).
PanicSignals == {"es"}
PanicEffects == {"z", "v"}
PanicOwners == {"top", "mid", "in", "bare"}


\* The fourth program, an effect that keeps writing a new value to the
\* signal it reads:
\*   ls := NewSignal(0)
\*   NewEffect(func() { if v := ls.Read(); v >= 1 { ls.Write(3 - v) } })    -- lp
\* then the host writes ls.
LoopSignals == {"ls"}
LoopEffects == {"lp"}

\* The fifth program, render and user effects, an effect that writes and
\* one that batches in its body, and settled callbacks:
\*   la, lb, lc, ld := NewSignal(0), ...
\*   NewEffect(func() { la.Read(); lb.Read() })                            -- ua
\*   NewRenderEffect(func() { lb.Write(la.Read()) })                       -- ra
\*   NewRenderEffect(func() { la.Read() })                                 -- rb
\*   NewEffect(func() { v := la.Read()
\*                      NewBatch(func() { lc.Write(v); ld.Write(v) }) })    -- ub
\*   NewEffect(func() { lb.Read(); lc.Read(); ld.Read() })                 -- uc
\* then the host writes la and registers the settled callbacks cs, cu, cr.
LaneSignals == {"la", "lb", "lc", "ld"}
RenderEffects == {"ra", "rb"}
LaneEffects == {"ua", "ub", "uc"} \cup RenderEffects

\* The sixth program, an effect that is inserted in the heap while its
\* body runs and then reads a memo:
\*   ha, hy := NewSignal(0), NewSignal(0)
\*   hb := NewComputed(func() any { return ha.Read() })
\*   NewEffect(func() { if hy.Read() >= 1 { hy.Write(0); hb.Read() } })    -- hx
HeapSignals == {"ha", "hy"}
HeapMemos == {"hb"}
HeapEffects == {"hx"}

\* The seventh program, two goroutines (the tests "goroutine isolation" and
\* "read/write from goroutine"):
\*   ga, gb, gn := NewSignal(0), ...
\*   wg.Go(func() { for gb.Read() < GoMax { gb.Write(gb.Read() + 1) } })
\*   NewEffect(func() { ga.Read() })                                       -- ea
\*   NewEffect(func() { gn.Read(); OnCleanup(cn) })                        -- en
\*   wg.Go(func() { for gn.Read() < GoMax { gn.Write(gn.Read() + 1) } })
\*   ga.Write(v) ...
\* The model has one other goroutine, which runs both loops.
GoSignals == {"ga", "gb", "gn"}
GoEffects == {"ea", "en"}

\* The eighth program, a memo whose value often stays the same (the test
\* "does not propagate when value unchanged") and reads made under Untrack
\* (the test "does not track reads"):
\*   pc, pu, pt := NewSignal(0), ...
\*   pa := NewComputed(func() int { if pc.Read() >= 1 { return 1 }; return 0 })
\*   pb := NewComputed(func() int { return pa.Read() + 1 })
\*   NewEffect(func() { pb.Read() })                                       -- pe
\*   pm := NewComputed(func() int { x := Untrack(pu.Read); return x + pt.Read() })
\*   NewEffect(func() { Untrack(func() { pu.Read(); pa.Read() }); pt.Read() })   -- pv
\* then the host writes pc, pu and pt.
MemoSignals == {"pc", "pu", "pt"}
MemoMemos == {"pa", "pb", "pm"}
MemoEffects == {"pe", "pv"}

\* The ninth program, functions that write while the runtime calls them
\* and settled callbacks that register callbacks:
\*   da, db := NewSignal(0), NewSignal(0)
\*   dm := NewComputed(func() any { v := da.Read(); if v >= 2 { db.Write(v) }; return v })
\*   NewEffect(func() { da.Read(); db.Read() })                            -- de
\*   cw := func() { db.Write(da.Read()) }
\*   c1 := func() { On..Settled(c3); On..Settled(c4) }   (on the queue that runs c1)
\*   c2, c3, c4 := func() {}, ...
\* then the host writes da and registers cw, c1 and c2.
SettleSignals == {"da", "db"}
SettleMemos == {"dm"}
SettleEffects == {"de"}

\* The tenth program, functions that panic outside every owner with an
\* error listener, one in the drain and one in an effect lane:
\*   xs := NewSignal(0)
\*   xm := NewComputed(func() any { v := xs.Read(); if v == 2 { panic("m") }; return v })
\*   NewEffect(func() { if xs.Read() == 1 { panic("e") } })               -- xe
\* then the host writes xs (and recovers what the Write panics with).
UnlockSignals == {"xs"}
UnlockMemos == {"xm"}
UnlockEffects == {"xe"}

\* The eleventh program, two goroutines that write signals read by the
\* same memo and the same effect:
\*   ja, jb := NewSignal(0), NewSignal(0)
\*   jm := NewComputed(func() any { return ja.Read() + jb.Read() })
\*   NewEffect(func() { ja.Read(); jb.Read() })                            -- je
\*   wg.Go(func() { jb.Write(v) ... })
\*   ja.Write(v) ...
RaceSignals == {"ja", "jb"}
RaceMemos == {"jm"}
RaceEffects == {"je"}

\* The twelfth program, two memos that read each other in turn:
\*   ts := NewSignal(0)
\*   var tx *Computed
\*   ty := NewComputed(func() any { v := ts.Read(); if v >= 1 { tx.Read() }; return v })
\*   tx = NewComputed(func() any { v := ts.Read(); if v == 0 { ty.Read() }; return v })
\*   NewEffect(func() { tx.Read() })                                       -- te
\* then the host writes ts.
TallSignals == {"ts"}
TallMemos == {"tx", "ty"}
TallEffects == {"te"}

Signals == DiamondSignals \cup OwnerSignals \cup PanicSignals \cup LoopSignals \cup LaneSignals
               \cup HeapSignals \cup GoSignals \cup MemoSignals
               \cup SettleSignals \cup UnlockSignals
               \cup RaceSignals \cup TallSignals
Memos == DiamondMemos \cup OwnerMemos \cup HeapMemos \cup MemoMemos \cup SettleMemos
               \cup UnlockMemos \cup RaceMemos
               \cup TallMemos
Effects == DiamondEffects \cup OwnerEffects \cup PanicEffects \cup LoopEffects \cup LaneEffects
               \cup HeapEffects \cup GoEffects \cup MemoEffects
               \cup SettleEffects \cup UnlockEffects
               \cup RaceEffects \cup TallEffects
Computeds == Memos \cup Effects
Nodes == Signals \cup Computeds
Owners == PureOwners \cup PanicOwners \cup Computeds
NoNode == "nil"

\* the goroutines of the program: the main goroutine and one other
MainGID == 1
OtherGID == 2

\* ------------------------------------------------------------ Signal.Value
\* (mutant) Value returns the committed value while a pending one is set
ValueCommitted(st, n) == st.value[n]

Value(st, n) ==
    IF st.pendingValue[n] # <<>> THEN st.pendingValue[n][1] ELSE st.value[n]

\* (mutant) isEqual reports every pair of values as different
isEqualNever(x, y) == FALSE

\* the values of the programs are ints: same type, comparable, a == b
isEqual(x, y) == x = y

\* the nodes a run of c reads, in order (it depends on the values c sees)
ReadList(st, c) ==
    CASE c = "b" -> <<"a">>
      [] c = "c" -> <<"a">>
      [] c = "d" -> <<"b", "c">>
      [] c = "m" -> IF Value(st, "f") >= 1 THEN <<"f", "d">> ELSE <<"f">>
      [] c = "e" -> <<"b", "c", "d">>
      [] c = "g" -> IF Value(st, "m") = 0 THEN <<"m", "w">> ELSE <<"m">>
      [] c = "x" -> <<"s">>
      [] c = "p" -> <<"s", "n">>
      [] c = "r" -> <<"k">>
      [] Base(c) = "q" -> <<"n">>
      [] Base(c) = "u" -> <<"k">>
      [] c \in {"z", "v"} -> <<"es">>
      [] c = "lp" -> <<"ls">>
      [] c = "ua" -> <<"la", "lb">>
      [] c \in {"ra", "rb", "ub"} -> <<"la">>
      [] c = "uc" -> <<"lb", "lc", "ld">>
      [] c = "hb" -> <<"ha">>
      [] c = "ea" -> <<"ga">>
      [] c = "en" -> <<"gn">>
      [] c = "hx" -> <<"hy">>
      [] c = "pa" -> <<"pc">>
      [] c = "pb" -> <<"pa">>
      [] c = "pe" -> <<"pb">>
      [] c = "dm" -> <<"da">>
      [] c = "de" -> <<"da", "db">>
      [] c \in {"xm", "xe"} -> <<"xs">>
      [] c \in {"jm", "je"} -> <<"ja", "jb">>
      [] c = "ty" -> IF Value(st, "ts") >= 1 THEN <<"ts", "tx">> ELSE <<"ts">>
      [] c = "tx" -> IF Value(st, "ts") = 0 THEN <<"ts", "ty">> ELSE <<"ts">>
      [] c = "te" -> <<"tx">>
      [] OTHER -> <<>>

\* the value a run of c returns
Compute(st, c) ==
    CASE c = "b" -> 2 * Value(st, "a")
      [] c = "c" -> 4 * Value(st, "a")
      [] c = "d" -> Value(st, "b") + Value(st, "c")
      [] c = "m" -> IF Value(st, "f") >= 1 /\ Value(st, "d") > 0 THEN 1 ELSE 0
      [] c = "t" -> Value(st, "k") + 1
      [] c = "hb" -> Value(st, "ha")
      [] c = "pa" -> IF Value(st, "pc") >= 1 THEN 1 ELSE 0
      [] c = "pb" -> Value(st, "pa") + 1
      [] c = "pm" -> Value(st, "pu") + Value(st, "pt")
      [] c = "dm" -> Value(st, "da")
      [] c = "xm" -> Value(st, "xs")
      [] c = "jm" -> Value(st, "ja") + Value(st, "jb")
      [] c \in {"tx", "ty"} -> Value(st, "ts")
      [] OTHER -> Nil

\* the writes the body of c performs after its reads, in order
WriteList(st, c) ==
    IF c = "e" THEN << <<"w", Value(st, "b") \div 2>> >> ELSE <<>>

\* what the body of c does after the reads of ReadList, in order: a write
\* <<signal, value>> or a call <<function, argument>>
BodyOps(st, c) ==
    CASE c = "x" -> IF Value(st, "s") >= 1 THEN << <<"Dispose", "o">> >> ELSE <<>>
      [] c = "p" -> << <<"NewEffect", "q">>, <<"OnCleanup", "cp1">>, <<"OnCleanup", "cp2">> >>
      [] c = "r" -> << <<"OnCleanup", "cr">> >>
      [] c = "t" -> << <<"NewEffect", "u">>, <<"OnCleanup", "ct">>, <<"Read", "k">> >>
      [] Base(c) = "q" -> << <<"OnCleanup", "cq">> >>
      [] Base(c) = "u" -> << <<"OnCleanup", "cu">> >>
      [] c = "z" -> IF Value(st, "es") >= 1 THEN << <<"panic", "1">> >> ELSE <<>>
      [] c = "v" -> << <<"Untrack", "v">> >>
      [] c = "lp" -> IF Value(st, "ls") >= 1 THEN << <<"ls", 3 - Value(st, "ls")>> >> ELSE <<>>
      [] c = "ra" -> << <<"lb", Value(st, "la")>> >>
      [] c = "ub" -> << <<"Batch", "ub">> >>
      [] c = "en" -> << <<"OnCleanup", "cn">> >>
      [] c = "hx" -> IF Value(st, "hy") >= 1 THEN << <<"hy", 0>>, <<"Read", "hb">> >> ELSE <<>>
      [] c \in {"pm", "pv"} -> << <<"Untrack", c>>, <<"Read", "pt">> >>
      [] c = "dm" -> IF Value(st, "da") >= 2 THEN << <<"db", Value(st, "da")>> >> ELSE <<>>
      [] c = "xm" -> IF Value(st, "xs") = 2 THEN << <<"panic", "m">> >> ELSE <<>>
      [] c = "xe" -> IF Value(st, "xs") = 1 THEN << <<"panic", "e">> >> ELSE <<>>
      [] OTHER -> WriteList(st, c)

\* the function passed to NewBatch by the body of c
BatchOps(st, c) == << <<"lc", Value(st, "la")>>, <<"ld", Value(st, "la")>> >>

\* the settled callback cb, called by the run of queue q
CallbackOps(st, cb, q) ==
    CASE cb = "cw" -> << <<"db", Value(st, "da")>> >>
      [] cb = "c1" -> << <<"OnSettled", q, "c3">>, <<"OnSettled", q, "c4">> >>
      [] OTHER -> <<>>

\* the function passed to Untrack by the body of c
UntrackOps(st, c) ==
    CASE c = "pm" -> << <<"Read", "pu">> >>
      [] c = "pv" -> << <<"Read", "pu">>, <<"Read", "pa">> >>
      [] OTHER -> IF Value(st, "es") >= 1 THEN << <<"Read", "es">>, <<"panic", "2">> >>
                  ELSE << <<"Read", "es">> >>

\* the function f passed to Owner.Run (the functions passed when the
\* programs are set up are named after the owner)
RunOps(f) ==
    CASE f = "o" -> << <<"OnCleanup", "co1">>, <<"OnCleanup", "co2">>,
                       <<"NewOwner", "oc">>, <<"OnDispose", "oc">>,
                       <<"NewEffect", "p">>, <<"NewEffect", "r">>, <<"NewComputed", "t">> >>
      [] f = "top" -> << <<"NewOwner", "mid">>, <<"OnError", "mid", "l1">>,
                         <<"OnError", "mid", "l2">>, <<"Run", "mid", "mid">> >>
      [] f = "mid" -> << <<"NewOwner", "in">>, <<"Run", "in", "in">> >>
      [] f = "in" -> << <<"NewEffect", "z">>, <<"NewEffect", "v">> >>
      [] f = "boom3" -> << <<"panic", "3">> >>
      [] f = "boom4" -> << <<"panic", "4">> >>
      [] OTHER -> <<>>

\* the top level of the second program, up to the end of o.Run
OwnerMain ==
    << <<"NewOwner", "o">>, <<"OnDispose", "o">>, <<"NewEffect", "x">>, <<"Run", "o", "o">> >>

\* the top level of the seventh program, run by the main goroutine
GoMain ==
    << <<"NewEffect", "ea">>, <<"NewEffect", "en">>, <<"Go", "gn">> >>

\* the top level of the sixth program
HeapMain ==
    << <<"NewComputed", "hb">>, <<"NewEffect", "hx">> >>

\* the top level of the twelfth program
TallMain == << <<"NewComputed", "ty">>, <<"NewComputed", "tx">>, <<"NewEffect", "te">> >>

\* the top level of the eleventh program
RaceMain == << <<"NewComputed", "jm">>, <<"NewEffect", "je">>, <<"Go", "jb">> >>

\* the top level of the tenth program
UnlockMain == << <<"NewComputed", "xm">>, <<"NewEffect", "xe">> >>

\* the top level of the ninth program
SettleMain == << <<"NewComputed", "dm">>, <<"NewEffect", "de">> >>

\* the top level of the eighth program
MemoMain ==
    << <<"NewComputed", "pa">>, <<"NewComputed", "pb">>, <<"NewEffect", "pe">>,
       <<"NewComputed", "pm">>, <<"NewEffect", "pv">> >>

\* the top level of the fifth program
LaneMain ==
    << <<"NewEffect", "ua">>, <<"NewEffect", "ra">>, <<"NewEffect", "rb">>,
       <<"NewEffect", "ub">>, <<"NewEffect", "uc">> >>

\* the top level of the fourth program
LoopMain == << <<"NewEffect", "lp">> >>

\* the top level of the third program
PanicMain ==
    << <<"NewOwner", "top">>, <<"OnError", "top", "l1">>, <<"Run", "top", "top">>,
       <<"NewOwner", "bare">> >>

\* ------------------------------------------------------------ sequences
RemoveFirst(s, x) ==
    IF \E i \in 1..Len(s) : s[i] = x
    THEN LET i == CHOOSE k \in 1..Len(s) : s[k] = x /\ \A j \in 1..(k-1) : s[j] # x
         IN SubSeq(s, 1, i-1) \o SubSeq(s, i+1, Len(s))
    ELSE s

Range(s) == {s[i] : i \in 1..Len(s)}

\* ------------------------------------------------------------ PriorityHeap
HasFlag(st, n, flag) == flag \in st.flags[n]

\* (mutant) Insert links the entry at the head of its bucket
InsertFront(st, node) ==
    IF HasFlag(st, node, "InHeap") THEN st
    ELSE LET height == st.height[node] IN
         [st EXCEPT !.flags[node] = @ \cup {"InHeap"},
                    !.heap.nodes[height] = <<node>> \o @,
                    !.heap.max = IF height > @ THEN height ELSE @,
                    !.h_ins = Append(@, node)]

\* the run-time panic of h.nodes[height] when height is not an index of
\* the bucket array
IndexOutOfRange == "index out of range"
OutOfRange(st) ==
    [st EXCEPT !.panicking = <<IndexOutOfRange>>, !.h_bad = @ \cup {IndexOutOfRange}]

\* (mutant) Insert does not test FlagInHeap
InsertAgain(st, node) ==
    LET height == st.height[node]
        s1 == [st EXCEPT !.flags[node] = @ \cup {"InHeap"}, !.h_ins = Append(@, node)]
    IN IF height \notin DOMAIN st.heap.nodes THEN OutOfRange(s1)
       ELSE [s1 EXCEPT !.heap.nodes[height] = Append(@, node),
                       !.heap.max = IF height > @ THEN height ELSE @]

Insert(st, node) ==
    IF HasFlag(st, node, "InHeap") THEN st
    ELSE LET height == st.height[node]
             s1 == [st EXCEPT !.flags[node] = @ \cup {"InHeap"}, !.h_ins = Append(@, node)]
         IN IF height \notin DOMAIN st.heap.nodes THEN OutOfRange(s1)
            ELSE [s1 EXCEPT !.heap.nodes[height] = Append(@, node),
                            !.heap.max = IF height > @ THEN height ELSE @]

\* InsertAll: the loop ends at the first Insert that panics
RECURSIVE InsertAll(_, _)
InsertAll(st, nodes) ==
    IF nodes = <<>> \/ st.panicking # <<>> THEN st
    ELSE InsertAll(Insert(st, Head(nodes)), Tail(nodes))

\* the buckets whose list holds the node's entry
Buckets(st, node) == {h \in DOMAIN st.heap.nodes : node \in Range(st.heap.nodes[h])}

\* Remove unlinks the looked-up entry, taking the bucket from the node's
\* current height: an entry alone in its list (entry.prev == entry) empties
\* bucket nodes[height]; the head of a longer list is unlinked only when it is
\* the head of nodes[height], else its list is cut after it
Remove(st, node) ==
    IF ~HasFlag(st, node, "InHeap") THEN st
    ELSE LET height == st.height[node]
             s1 == [st EXCEPT !.flags[node] = @ \ {"InHeap"},
                              !.h_ins = RemoveFirst(@, node)]
         IN IF Buckets(st, node) = {} THEN s1
            ELSE IF height \notin DOMAIN st.heap.nodes THEN OutOfRange(s1)
            ELSE LET at == CHOOSE h \in Buckets(st, node) : TRUE
                     list == st.heap.nodes[at]
                 IN IF Len(list) = 1 THEN [s1 EXCEPT !.heap.nodes[height] = <<>>]
                    ELSE IF at = height \/ Head(list) # node
                         THEN [s1 EXCEPT !.heap.nodes[at] = RemoveFirst(@, node)]
                         ELSE [s1 EXCEPT !.heap.nodes[at] = <<node>>]

\* ------------------------------------------------------- dependency links
\* subs[dep] is the list of dep's links, each named by its subscriber;
\* deps[sub] is the list of sub's links, each named by its dependency
Link(st, sub, dep) ==
    LET ds == st.deps[sub] IN
    IF ds # <<>> /\ ds[Len(ds)] = dep THEN st
    ELSE [st EXCEPT !.deps[sub] = Append(@, dep),
                    !.subs[dep] = Append(@, sub),
                    !.height[sub] = IF st.height[dep] >= @ THEN st.height[dep] + 1 ELSE @]

removeSubLink(st, dep, sub) == [st EXCEPT !.subs[dep] = RemoveFirst(@, sub)]

RECURSIVE RemoveLinks(_, _, _)
RemoveLinks(st, c, links) ==
    IF links = <<>> THEN st
    ELSE RemoveLinks(removeSubLink(st, Head(links), c), c, Tail(links))

ClearDeps(st, c) ==
    [RemoveLinks(st, c, st.deps[c]) EXCEPT !.deps[c] = <<>>]

\* ------------------------------------------------------------------ Owner
Event(ev, o, fn) == [ev |-> ev, o |-> o, fn |-> fn]
Log(st, ev, o, fn) == [st EXCEPT !.h_log = Append(@, Event(ev, o, fn))]

\* (mutant) AddChild links the child at the tail of the parent's list
AddChildLast(st, parent, child) ==
    [st EXCEPT !.parent[child] = parent,
               !.children[parent] = Append(@, child)]

\* Owner.AddChild: the child becomes the head of the parent's list
AddChild(st, parent, child) ==
    [st EXCEPT !.parent[child] = parent,
               !.children[parent] = <<child>> \o @]

\* Runtime.NewOwner
NewOwner(st, o) ==
    LET parent == st.tracker.currentOwner
    IN IF parent # NoNode THEN AddChild(st, parent, o) ELSE st

\* Owner.OnCleanup, Owner.OnDispose, Owner.OnError
OwnerOnCleanup(st, o, fn) ==
    [st EXCEPT !.cleanups[o] = Append(@, fn), !.h_pend[o] = Append(@, fn)]

OnDispose(st, o, fn) == [st EXCEPT !.disposeListeners[o] = Append(@, fn)]

OnError(st, o, fn) == [st EXCEPT !.errorListeners[o] = Append(@, fn)]

\* Runtime.OnCleanup
OnCleanup(st, fn) ==
    LET owner == st.tracker.currentOwner
    IN IF owner # NoNode THEN OwnerOnCleanup(st, owner, fn) ELSE st

\* a cleanup function of the program runs (it appends to the test's log);
\* the history notes a cleanup that runs while not waiting to be run
CallCleanup(st, o, fn) ==
    LET s1 == Log(st, "cleanup", o, fn)
    IN IF fn \in Range(st.h_pend[o])
       THEN [s1 EXCEPT !.h_pend[o] = RemoveFirst(@, fn)]
       ELSE [s1 EXCEPT !.h_bad = @ \cup {"cleanup not waiting"}]

\* for _, fn := range n.cleanups { fn() }
RECURSIVE RunCleanups(_, _, _)
RunCleanups(st, o, fns) ==
    IF fns = <<>> THEN st
    ELSE RunCleanups(CallCleanup(st, o, Head(fns)), o, Tail(fns))

\* (mutant) the dispose listener leaves the node linked to its dependencies
ComputedOnDisposeFlagOnly(st, c) ==
    Log([st EXCEPT !.flags[c] = {"Disposed"}], "disposed", c, "computed")

\* the dispose listener NewComputed registers on the node's owner
ComputedOnDispose(st, c) ==
    LET s1 == IF st.deps[c] # <<>> THEN ClearDeps(Remove(st, c), c) ELSE st
    IN Log([s1 EXCEPT !.flags[c] = {"Disposed"}], "disposed", c, "computed")

CallListener(st, o, fn) ==
    IF fn = "computed" THEN ComputedOnDispose(st, o) ELSE Log(st, "disposed", o, fn)

\* for _, fn := range n.disposeListeners { fn() }
RECURSIVE RunListeners(_, _, _)
RunListeners(st, o, fns) ==
    IF fns = <<>> THEN st
    ELSE RunListeners(CallListener(st, o, Head(fns)), o, Tail(fns))

RECURSIVE Dispose(_, _)
RECURSIVE DisposeEach(_, _)
\* for child := range n.Children() { child.Dispose() }
DisposeEach(st, os) ==
    IF os = <<>> THEN st
    ELSE DisposeEach(Dispose(st, Head(os)), Tail(os))

\* (mutant) DisposeChildren forgets the children without disposing them
DisposeChildrenDrop(st, o) == [st EXCEPT !.children[o] = <<>>]

\* Owner.DisposeChildren
DisposeChildren(st, o) ==
    [DisposeEach(st, st.children[o]) EXCEPT !.children[o] = <<>>]

\* (mutant) Cleanup leaves the cleanups in the list
CleanupKeep(st, o) ==
    LET s1 == DisposeChildren(st, o)
    IN RunCleanups(s1, o, s1.cleanups[o])

\* Owner.Cleanup
Cleanup(st, o) ==
    LET s1 == DisposeChildren(st, o)
        s2 == RunCleanups(s1, o, s1.cleanups[o])
    IN [s2 EXCEPT !.cleanups[o] = <<>>]

\* (mutant) Dispose runs the owner's cleanups before it disposes the children
DisposeOwnFirst(st, o) ==
    LET s1 == RunCleanups(st, o, st.cleanups[o])
        s2 == DisposeChildren([s1 EXCEPT !.cleanups[o] = <<>>], o)
        s3 == RunListeners(s2, o, s2.disposeListeners[o])
    IN [s3 EXCEPT !.h_disposed = @ \cup {o}]

\* Owner.Dispose
Dispose(st, o) ==
    LET s1 == DisposeChildren(st, o)
        s2 == RunCleanups(s1, o, s1.cleanups[o])
        s3 == [s2 EXCEPT !.cleanups[o] = <<>>]
        s4 == RunListeners(s3, o, s3.disposeListeners[o])
    IN [s4 EXCEPT !.h_disposed = @ \cup {o}]

\* ---------------------------------------------------------------- Tracker
NewTracker == [tracking |-> TRUE, currentOwner |-> NoNode, currentComputation |-> NoNode]

\* (mutant) the caller is taken to run on the main goroutine
shouldTrackMain(st) ==
    /\ st.tracker.currentComputation # NoNode
    /\ st.tracker.tracking
    /\ MainGID = st.executingGID

\* hasOwner && isTracking && isSameGID: the caller st.g runs on the goroutine
\* that entered the current computation
shouldTrack(st) ==
    /\ st.tracker.currentComputation # NoNode
    /\ st.tracker.tracking
    /\ st.g = st.executingGID

Track(st, node) ==
    IF shouldTrack(st) THEN Link(st, st.tracker.currentComputation, node) ELSE st

\* Signal.Read: Track, then Value (the value is Value(st, node))
Read(st, node) == Track(st, node)

RECURSIVE ReadAll(_, _)
ReadAll(st, nodes) ==
    IF nodes = <<>> THEN st
    ELSE ReadAll(Read(st, Head(nodes)), Tail(nodes))

\* the deferred functions of RunWithComputation, RunWithOwner and
\* RunUntracked that put back what the activation fr saved on entry
RestoreNothing(st, fr) == st

RestoreComputation(st, fr) ==
    [st EXCEPT !.tracker.currentOwner = fr.prevOwner,
               !.tracker.currentComputation = fr.prev]

RestoreOwner(st, fr) == [st EXCEPT !.tracker.currentOwner = fr.prevOwner]

RestoreTracking(st, fr) == [st EXCEPT !.tracker.tracking = fr.prevTracking]

\* the history notes an exit that leaves the tracker different from what it
\* was on entry
ExitCheck(st, fr) ==
    IF st.tracker = fr.entry THEN st
    ELSE [st EXCEPT !.h_bad = @ \cup {"tracker not restored"}]

\* ------------------------------------------------------------ Owner.recover
RECURSIVE Catcher(_, _)
\* (mutant) only the listeners of the running owner itself are looked at
CatcherSelf(st, o) ==
    IF o # NoNode /\ st.errorListeners[o] # <<>> THEN o ELSE NoNode

\* for owner := n; owner != nil; owner = owner.parent: the first owner with
\* an error listener
Catcher(st, o) ==
    IF o = NoNode THEN NoNode
    ELSE IF st.errorListeners[o] # <<>> THEN o
    ELSE Catcher(st, st.parent[o])

\* what an error listener is called with
Delivery(fn, r) == fn \o "(" \o r \o ")"

\* fn(r) of an error listener (it appends to the test's log); the history
\* notes a listener called while the tracker is not what it was on entry
CallErrorListener(st, owner, fn, fr) ==
    LET s1 == Log(st, "caught", owner, Delivery(fn, st.panicking[1]))
    IN IF st.tracker = fr.entry THEN s1
       ELSE [s1 EXCEPT !.h_bad = @ \cup {"listener before restore"}]

RECURSIVE RunErrorListeners(_, _, _, _)
RunErrorListeners(st, owner, fns, fr) ==
    IF fns = <<>> THEN st
    ELSE RunErrorListeners(CallErrorListener(st, owner, Head(fns), fr), owner, Tail(fns), fr)

\* Owner.recover, deferred by the activation fr of owner o: a panic is
\* handed to the listeners of the catcher and stops, or goes on (panic(r))
recover(st, o, fr) ==
    IF st.panicking = <<>> THEN st
    ELSE LET owner == Catcher(st, o)
         IN IF owner = NoNode THEN st
            ELSE [RunErrorListeners(st, owner, st.errorListeners[owner], fr)
                     EXCEPT !.panicking = <<>>]

\* ---------------------------------------------------------- control stack
Frame(k, pc, node, list, prev, old, rec, create) ==
    [k |-> k, pc |-> pc, node |-> node, list |-> list, prev |-> prev,
     old |-> old, rec |-> rec, create |-> create, prevOwner |-> NoNode,
     prevTracking |-> TRUE, entry |-> NewTracker, count |-> 0, base |-> 0,
     shared |-> FALSE, h_taken |-> <<>>, h_clock |-> 0]

FlushFrame == Frame("flush", "enter", NoNode, <<>>, NoNode, Nil, FALSE, FALSE)

Push(st, fr) == [st EXCEPT !.stack = Append(@, fr)]
Pop(st) == [st EXCEPT !.stack = SubSeq(@, 1, Len(@) - 1)]
Top(st) == st.stack[Len(st.stack)]
SetTop(st, fr) == [st EXCEPT !.stack[Len(st.stack)] = fr]
InFlush(st) == \E i \in 1..Len(st.stack) : st.stack[i].k = "flush"

\* ------------------------------------------------------ Runtime.Schedule
\* Flush is entered by pushing its activation
Flush(st) == Push(st, FlushFrame)

\* sync.Mutex: r.mu.Lock() and r.mu.Unlock() of the runtime mutex
Lock(st) == [st EXCEPT !.mu = TRUE]
Unlock(st) == [st EXCEPT !.mu = FALSE]
\* the caller of r.mu.Lock() waits for a mutex that is held: with one
\* goroutine nothing releases it, the activation never goes on
Blocked(st) == Push(st, Frame("blocked", "mu", NoNode, <<>>, NoNode, Nil, FALSE, FALSE))

\* (mutant) Schedule flushes whether or not a batch is active
ScheduleInBatch(st, force) ==
    IF ~force /\ st.scheduler.running THEN st
    ELSE IF st.mu THEN Blocked(st)
    ELSE LET s1 == [st EXCEPT !.scheduler.scheduled = TRUE]
         IN IF ~s1.scheduler.running THEN Flush(s1) ELSE s1

Schedule(st, force) ==
    IF ~force /\ st.scheduler.running THEN st
    ELSE IF st.mu THEN Blocked(st)
    ELSE LET s1 == [st EXCEPT !.scheduler.scheduled = TRUE]
             shouldFlush == s1.batcher.depth = 0 /\ ~s1.scheduler.running
         IN IF shouldFlush THEN Flush(s1) ELSE s1

\* ReactiveNode.SetVersion(r.scheduler.Time())
SetVersion(st, n) == [st EXCEPT !.version[n] = st.scheduler.clock]

\* ------------------------------------------------------------ Signal.Write
\* the end of Signal.Write: r.mu.Lock(), SetVersion, InsertAll of the
\* subscribers, r.mu.Unlock(), r.Schedule(true).  The Unlock is not
\* deferred: a panic of InsertAll leaves Write with the mutex held.
Notify(st, s) ==
    LET s2 == InsertAll(SetVersion(st, s), st.subs[s])
    IN IF s2.panicking = <<>> THEN Schedule(s2, TRUE)
       ELSE IF s2.stack # <<>> THEN Lock(s2)
       ELSE [Log(Lock(s2), "escaped", "host", s2.panicking[1]) EXCEPT !.panicking = <<>>]

\* (mutant) a Write made inside a batch is dropped
WriteUnbatched(st, s, v) ==
    IF isEqual(Value(st, s), v) \/ st.batcher.depth > 0 THEN [st EXCEPT !.h_lastW[s] = v]
    ELSE LET s1 == [st EXCEPT !.pendingValue[s] = <<v>>,
                              !.h_lastW[s] = v]
         IN IF s1.mu THEN Blocked(s1)
            ELSE Notify(s1, s)

Write(st, s, v) ==
    IF isEqual(Value(st, s), v) THEN [st EXCEPT !.h_lastW[s] = v]
    ELSE LET s1 == [st EXCEPT !.pendingValue[s] = <<v>>,
                              !.h_lastW[s] = v]
         IN IF s1.mu THEN Blocked(s1)
            ELSE Notify(s1, s)

\* Signal.Commit
Commit(st, n) ==
    IF st.pendingValue[n] # <<>>
    THEN [st EXCEPT !.value[n] = st.pendingValue[n][1], !.pendingValue[n] = <<>>]
    ELSE st

RECURSIVE CommitAll(_, _)
CommitAll(st, nodes) ==
    IF nodes = <<>> THEN st
    ELSE CommitAll(Commit(st, Head(nodes)), Tail(nodes))

\* NodeQueue.Commit
QueueCommit(st) == [CommitAll(st, st.nodeQueue) EXCEPT !.nodeQueue = <<>>]


\* ------------------------------------------------------------------ state
VARIABLES rt
vars == <<rt>>

NoObs == [node |-> NoNode, vals |-> <<>>, pend |-> <<>>, a |-> 0, closure |-> FALSE]
NoOp == [kind |-> "none", sig |-> NoNode, chg |-> FALSE, reach |-> FALSE, inS |-> FALSE,
         batched |-> {}, n |-> 0]
NoRead == [sig |-> NoNode, v |-> Nil, committed |-> Nil, pending |-> <<>>]
NoPass == [enq |-> <<>>, ran |-> <<>>]
NoDrained == [node |-> NoNode, height |-> 0, prev |-> 0, first |-> NoNode]

\* NewRuntime, and the signals of the program created with NewSignal(0)
\* the parts of the state that belong to a Runtime: GetRuntime gives each
\* goroutine its own (the nodes are shared); executingGID is the field of
\* the Tracker, stack and panicking are the goroutine's own
PerRuntime ==
    {"heap", "scheduler", "batcher", "effectQueue", "settled", "settledCap", "nodeQueue", "tracker",
     "executingGID", "mu", "stack", "panicking", "h_pass", "h_ins", "h_drained"}

MainRuntime ==
    [created |-> {},
     g |-> MainGID,
     executingGID |-> 0,
     parked |-> <<>>,
     spawned |-> {},
     value |-> [n \in Nodes |-> IF n \in Signals THEN 0 ELSE Nil],
     pendingValue |-> [n \in Nodes |-> <<>>],
     height |-> [n \in Nodes |-> 0],
     version |-> [n \in Nodes |-> 0],
     flags |-> [n \in Nodes |-> {}],
     subs |-> [n \in Nodes |-> <<>>],
     deps |-> [c \in Computeds |-> <<>>],
     initialized |-> [c \in Computeds |-> FALSE],
     fn |-> [c \in Computeds |-> "nil"],
     heap |-> [min |-> 0, max |-> 0, nodes |-> [h \in 0..(HeapSlots - 1) |-> <<>>]],
     scheduler |-> [clock |-> 0, scheduled |-> FALSE, running |-> FALSE],
     batcher |-> [depth |-> 0],
     effectQueue |-> [render |-> <<>>, user |-> <<>>],
     settled |-> [top |-> <<>>, user |-> <<>>, render |-> <<>>],
     settledCap |-> [top |-> 0, user |-> 0, render |-> 0],
     nodeQueue |-> <<>>,
     tracker |-> NewTracker,
     panicking |-> <<>>,
     parent |-> [o \in Owners |-> NoNode],
     children |-> [o \in Owners |-> <<>>],
     cleanups |-> [o \in Owners |-> <<>>],
     disposeListeners |-> [o \in Owners |-> <<>>],
     errorListeners |-> [o \in Owners |-> <<>>],
     mu |-> FALSE,
     stack |-> <<>>,
     h_log |-> <<>>,
     h_pend |-> [o \in Owners |-> <<>>],
     h_bad |-> {},
     h_disposed |-> {},
     h_fails |-> 0,
     h_pass |-> NoPass,
     h_reg |-> [q \in {"top", "user", "render"} |-> 0],
     h_ran |-> [q \in {"top", "user", "render"} |-> 0],
     h_ins |-> <<>>,
     h_lastW |-> [s \in Signals |-> 0],
     h_obs |-> NoObs,
     h_runs |-> [c \in Computeds |-> 0],
     h_drained |-> NoDrained,
     h_op |-> NoOp,
     h_read |-> NoRead]

\* NewRuntime for the main goroutine; the Runtime of the other goroutine is
\* set aside while the main goroutine runs
NewRuntime == [MainRuntime EXCEPT !.parked = [f \in PerRuntime |-> MainRuntime[f]]]

\* Effect.Type: the lane of the effect (EffectRender or EffectUser)
EffectType(e) == IF e \in RenderEffects THEN "render" ELSE "user"

Vals(st, nodes) == [i \in 1..Len(nodes) |-> Value(st, nodes[i])]

\* ----------------------------------------------------------- Computed.run
\* Tracker.RunWithComputation(c, c.run) up to the end of the reads of the
\* compute function: the tracker's slots are saved in the activation, the
\* node is marked initialized, its reads link it to what it reads.  The
\* writes of the body are left in the activation and done one per step.
BeginRun(st, c, old, rec, create) ==
    LET prev == st.tracker.currentComputation
        s0 == [st EXCEPT !.tracker.currentOwner = c,
                         !.tracker.currentComputation = c,
                         !.executingGID = st.g,
                         !.initialized[c] = TRUE,
                         !.h_bad = IF HasFlag(st, c, "Disposed")
                                   THEN @ \cup {"run when disposed"} ELSE @]
        s1 == Log(IF st.initialized[c] THEN Cleanup(s0, c) ELSE s0,
                  "run", c, IF st.initialized[c] THEN "again" ELSE "first")
        reads == ReadList(s1, c)
        s2 == ReadAll(s1, reads)
        s3 == [s2 EXCEPT !.h_obs = [node |-> c, vals |-> Vals(s2, reads),
                                    pend |-> [i \in 1..Len(reads) |-> s2.pendingValue[reads[i]]],
                                    a |-> Value(s2, "a"), closure |-> ~rec],
                         !.h_runs[c] = IF @ < MaxRuns THEN @ + 1 ELSE @]
    IN Push(s3, [Frame("body", "writes", c, BodyOps(s3, c), prev, old, rec, create)
                    EXCEPT !.prevOwner = st.tracker.currentOwner,
                           !.entry = st.tracker])

\* (mutant) recompute inserts the subscribers whatever the new value is
AfterRunAlways(st, fr) ==
    LET c == fr.node
        s3 == IF fr.rec THEN InsertAll(st, st.subs[c]) ELSE st
    IN IF fr.create /\ c \in Effects THEN [s3 EXCEPT !.fn[c] = "effect.run"] ELSE s3

\* what the caller of RunWithComputation does next: recompute inserts the
\* subscribers when the value changed, NewEffect installs Effect.run as the
\* node's fn
AfterRun(st, fr) ==
    LET c == fr.node
        s3 == IF fr.rec /\ ~isEqual(fr.old, Value(st, c))
              THEN InsertAll(st, st.subs[c]) ELSE st
    IN IF fr.create /\ c \in Effects THEN [s3 EXCEPT !.fn[c] = "effect.run"] ELSE s3

\* the end of Computed.run and of RunWithComputation
EndRun(st) ==
    LET fr == Top(st)
        c == fr.node
        s1 == Pop(st)
        s2 == [s1 EXCEPT !.pendingValue[c] = <<Compute(s1, c)>>]
    IN AfterRun(ExitCheck(RestoreComputation(s2, fr), fr), fr)

\* Effect.run: push the execution closure on the effect's lane, Schedule(false)
EffectRun(st, e) ==
    Schedule([st EXCEPT !.effectQueue[EffectType(e)] = Append(@, e),
                        !.h_pass.enq = Append(@, e)], FALSE)

\* Runtime.recompute
recompute(st, node) ==
    IF st.fn[node] = "nil" THEN st
    ELSE LET oldValue == Value(st, node)
             s2 == SetVersion(ClearDeps(DisposeChildren(st, node), node), node)
         IN IF st.fn[node] = "effect.run"
            THEN LET s3 == EffectRun(s2, node)
                 IN IF ~isEqual(oldValue, Value(s3, node))
                    THEN InsertAll(s3, s3.subs[node]) ELSE s3
            ELSE BeginRun(s2, node, oldValue, TRUE, node \in Effects /\ ~st.initialized[node])

\* Runtime.NewComputed (and, for an effect, Runtime.NewEffect around it)
NewComputed(st, c) ==
    LET s1 == OnDispose(NewOwner(st, c), c, "computed")
    IN recompute([s1 EXCEPT !.created = @ \cup {c}, !.fn[c] = "computed.run"], c)

\* (mutant) the closure does not test FlagDisposed
EffectClosureAlways(st, e) ==
    BeginRun([st EXCEPT !.h_pass.ran = Append(@, e)], e, Nil, FALSE, FALSE)

\* the execution closure Effect.run pushed on the lane
EffectClosure(st, e) ==
    LET s1 == [st EXCEPT !.h_pass.ran = Append(@, e)]
    IN IF HasFlag(st, e, "Disposed") THEN Log(s1, "skip", e, "closure")
       ELSE BeginRun(s1, e, Nil, FALSE, FALSE)

\* Batcher.Batch: entry, and the deferred part run when fn returns
BatchEnter(st) == [st EXCEPT !.batcher.depth = @ + 1]

BatchLeave(st) ==
    LET s1 == [st EXCEPT !.batcher.depth = @ - 1]
    IN IF s1.batcher.depth = 0 THEN Flush(s1) ELSE s1

\* ----------------------------------------------------------- SettledQueue
SettledPc(q) == IF q = "top" THEN "topSettled" ELSE IF q = "user" THEN "userSettled"
                ELSE "renderSettled"

\* append(q.callbacks, fn) when the backing array has room: element at of
\* the array is written, and with it the slice a SettledQueue.Run in
\* progress iterates, which is a slice of the same array
WriteShared(stack, q, at, fn) ==
    [i \in 1..Len(stack) |->
        LET fr == stack[i]
        IN IF fr.k = "flush" /\ fr.pc = SettledPc(q) /\ fr.shared
              /\ at > fr.base /\ at <= fr.base + Len(fr.list)
           THEN [fr EXCEPT !.list[at - fr.base] = fn]
           ELSE fr]

\* append(q.callbacks, fn) when the backing array is full: the callbacks
\* move to a new array, a Run in progress keeps the old one
Detach(stack, q) ==
    [i \in 1..Len(stack) |->
        IF stack[i].k = "flush" /\ stack[i].pc = SettledPc(q)
        THEN [stack[i] EXCEPT !.shared = FALSE] ELSE stack[i]]

\* the capacity append gives the new array of a full slice of cap elements
GrowCap(cap) == IF cap = 0 THEN 1 ELSE 2 * cap

\* (mutant) Enqueue always appends to a new array
OnSettledCopy(st, q, fn) ==
    [st EXCEPT !.settled[q] = Append(@, fn), !.h_reg[q] = @ + 1,
               !.settledCap[q] = IF Len(st.settled[q]) < @ THEN @ ELSE GrowCap(@),
               !.stack = Detach(@, q)]

\* SettledQueue.Enqueue, for the queues of OnSettled ("top"), OnUserSettled
\* ("user") and OnRenderSettled ("render"): q.callbacks = append(q.callbacks, fn)
OnSettled(st, q, fn) ==
    IF Len(st.settled[q]) < st.settledCap[q]
    THEN [st EXCEPT !.settled[q] = Append(@, fn), !.h_reg[q] = @ + 1,
                    !.stack = WriteShared(@, q, Len(st.settled[q]) + 1, fn)]
    ELSE [st EXCEPT !.settled[q] = Append(@, fn), !.h_reg[q] = @ + 1,
                    !.settledCap[q] = GrowCap(@),
                    !.stack = Detach(@, q)]

\* ------------------------------------------------------------ host actions
Idle(st) == st.stack = <<>>

\* a host operation starts: the history of the previous one is reset
HostOp(st, op) ==
    [st EXCEPT !.h_runs = [c \in Computeds |-> 0], !.h_obs = NoObs, !.h_op = op,
               !.h_read = NoRead, !.h_log = <<>>]

RECURSIVE ReachFrom(_, _)
\* the nodes reachable from the nodes of set S through dependency links and
\* through the writes of effects
ReachFrom(st, S) ==
    LET step == {x \in Computeds : \E n \in S : x \in Range(st.subs[n])}
        wr == {s \in Signals : \E e \in S \cap Effects :
                  \E i \in 1..Len(WriteList(st, e)) : WriteList(st, e)[i][1] = s}
        T == S \cup step \cup wr
    IN IF T = S THEN S ELSE ReachFrom(st, T)

ToCreate(st) == CreationOrder[Cardinality(st.created) + 1]

HostNewComputed ==
    /\ Idle(rt)
    /\ Cardinality(rt.created) < Len(CreationOrder)
    /\ ToCreate(rt) \in Memos
    /\ rt' = NewComputed(HostOp(rt, [NoOp EXCEPT !.kind = "create"]), ToCreate(rt))

HostNewEffect ==
    /\ Idle(rt)
    /\ Cardinality(rt.created) < Len(CreationOrder)
    /\ ToCreate(rt) \in Effects
    /\ rt' = NewComputed(HostOp(rt, [NoOp EXCEPT !.kind = "create"]), ToCreate(rt))

\* the program is set up (every node created) before the host writes
SetUp(st) == Cardinality(st.created) = Len(CreationOrder)

\* the host writes v to s while the clock is below limit
HostWriteBelow(limit, s, v) ==
    /\ Idle(rt)
    /\ SetUp(rt)
    /\ rt.scheduler.clock < limit
    /\ LET op == [NoOp EXCEPT !.kind = "write", !.sig = s,
                              !.chg = ~isEqual(Value(rt, s), v),
                              !.reach = "g" \in ReachFrom(rt, {s}),
                              !.inS = s \in Range(rt.deps["g"])]
           s1 == IF rt.batcher.depth > 0
                 THEN [rt EXCEPT !.h_op = [NoOp EXCEPT !.kind = "batch",
                                                       !.batched = rt.h_op.batched \cup {s},
                                                       !.n = IF rt.h_op.n < 2 THEN rt.h_op.n + 1 ELSE 2],
                                 !.h_read = NoRead]
                 ELSE HostOp(rt, op)
       IN rt' = Write(s1, s, v)

HostWrite(s, v) == HostWriteBelow(MaxClock, s, v)

HostRead(n) ==
    /\ Idle(rt)
    /\ SetUp(rt)
    /\ n \in DiamondSignals \cup {"d"}
    /\ rt' = [Read(rt, n) EXCEPT !.h_read =
                 [sig |-> n, v |-> Value(rt, n), committed |-> rt.value[n],
                  pending |-> rt.pendingValue[n]]]

HostBatchBegin ==
    /\ Idle(rt)
    /\ SetUp(rt)
    /\ rt.batcher.depth < MaxBatchDepth
    /\ rt' = BatchEnter(IF rt.batcher.depth = 0
                        THEN HostOp(rt, [NoOp EXCEPT !.kind = "batch"])
                        ELSE [rt EXCEPT !.h_read = NoRead])

HostBatchEnd ==
    /\ Idle(rt)
    /\ rt.batcher.depth > 0
    /\ rt' = BatchLeave([rt EXCEPT !.h_read = NoRead])

\* ------------------------------------------------------- compute bodies
\* the activations that run a function of the program
FnKinds == {"body", "owner", "untracked", "main", "batch", "callback"}

\* the next write of the body on top of the stack (Signal.Write)
BodyWrite ==
    /\ ~Idle(rt)
    /\ Top(rt).k \in FnKinds
    /\ rt.panicking = <<>>
    /\ Top(rt).list # <<>>
    /\ Head(Top(rt).list)[1] \in Signals
    /\ LET fr == Top(rt)
           w == Head(fr.list)
       IN rt' = Write(SetTop(rt, [fr EXCEPT !.list = Tail(@)]), w[1], w[2])

BodyReturn ==
    /\ ~Idle(rt)
    /\ Top(rt).k = "body"
    /\ rt.panicking = <<>>
    /\ Top(rt).list = <<>>
    /\ rt' = EndRun(rt)

\* ------------------------------------------- the calls a body can make
\* the function on top of the stack is about to make the call named tag
AtCall(tag) ==
    /\ ~Idle(rt)
    /\ Top(rt).k \in FnKinds
    /\ rt.panicking = <<>>
    /\ Top(rt).list # <<>>
    /\ Head(Top(rt).list)[1] = tag

Arg(st) == Head(Top(st).list)[2]
Arg3(st) == Head(Top(st).list)[3]
Called(st) == SetTop(st, [Top(st) EXCEPT !.list = Tail(@)])

\* the object a NewEffect or NewComputed of the program creates
Fresh(st, base) ==
    IF base \in {"q", "u"}
    THEN Inc(base, Cardinality(st.created \cap Incs(base)) + 1)
    ELSE base

\* Tracker.RunWithOwner(o, fn), up to the call of fn
RunWithOwner(st, o, ops) ==
    Push([st EXCEPT !.tracker.currentOwner = o, !.executingGID = st.g],
         [Frame("owner", "ops", o, ops, NoNode, Nil, FALSE, FALSE)
             EXCEPT !.prevOwner = st.tracker.currentOwner,
                    !.entry = st.tracker])

\* (mutant) RunUntracked leaves the tracking flag as it is
RunUntrackedOn(st, ops) ==
    Push(st,
         [Frame("untracked", "ops", NoNode, ops, NoNode, Nil, FALSE, FALSE)
             EXCEPT !.prevTracking = st.tracker.tracking,
                    !.entry = st.tracker])

\* Tracker.RunUntracked(fn), up to the call of fn
RunUntracked(st, ops) ==
    Push([st EXCEPT !.tracker.tracking = FALSE],
         [Frame("untracked", "ops", NoNode, ops, NoNode, Nil, FALSE, FALSE)
             EXCEPT !.prevTracking = st.tracker.tracking,
                    !.entry = st.tracker])

BodyRead ==
    /\ AtCall("Read")
    /\ rt' = Read(Called(rt), Arg(rt))

BodyOnCleanup ==
    /\ AtCall("OnCleanup")
    /\ rt' = OnCleanup(Called(rt), Arg(rt))

BodyNewOwner ==
    /\ AtCall("NewOwner")
    /\ rt' = NewOwner(Called(rt), Arg(rt))

BodyOnDispose ==
    /\ AtCall("OnDispose")
    /\ rt' = OnDispose(Called(rt), Arg(rt), "listener")

BodyNewEffect ==
    /\ AtCall("NewEffect")
    /\ rt' = NewComputed(Called(rt), Fresh(rt, Arg(rt)))

BodyNewComputed ==
    /\ AtCall("NewComputed")
    /\ rt' = NewComputed(Called(rt), Fresh(rt, Arg(rt)))

BodyDispose ==
    /\ AtCall("Dispose")
    /\ rt' = Dispose(Called(rt), Arg(rt))

\* Owner.Run
BodyRun ==
    /\ AtCall("Run")
    /\ rt' = RunWithOwner(Called(rt), Arg(rt), RunOps(Arg3(rt)))

BodyOnError ==
    /\ AtCall("OnError")
    /\ rt' = OnError(Called(rt), Arg(rt), Arg3(rt))

\* Untrack(fn)
BodyUntrack ==
    /\ AtCall("Untrack")
    /\ rt' = RunUntracked(Called(rt), UntrackOps(rt, Arg(rt)))

\* NewBatch(fn): Batcher.Batch up to the call of fn
BodyBatch ==
    /\ AtCall("Batch")
    /\ rt' = Push(BatchEnter(Called(rt)),
                  Frame("batch", "ops", NoNode, BatchOps(rt, Arg(rt)), NoNode, Nil, FALSE, FALSE))

\* fn returns to Batcher.Batch: the deferred function counts the batch out
\* and calls onComplete, which is Runtime.Flush
BatchReturn ==
    /\ ~Idle(rt)
    /\ Top(rt).k = "batch"
    /\ rt.panicking = <<>>
    /\ Top(rt).list = <<>>
    /\ rt' = BatchLeave(Pop(rt))

\* OnSettled(fn), OnUserSettled(fn) or OnRenderSettled(fn) called by a
\* function of the program
BodyOnSettled ==
    /\ AtCall("OnSettled")
    /\ rt' = OnSettled(Called(rt), Arg(rt), Arg3(rt))

\* a settled callback returns to SettledQueue.Run
CallbackReturn ==
    /\ ~Idle(rt)
    /\ Top(rt).k = "callback"
    /\ rt.panicking = <<>>
    /\ Top(rt).list = <<>>
    /\ rt' = Pop(rt)

\* panic(r): the function stops at the call, the deferred functions of
\* the activations run innermost first
BodyPanic ==
    /\ AtCall("panic")
    /\ rt' = Log([rt EXCEPT !.panicking = <<Arg(rt)>>],
                 "panic", rt.tracker.currentOwner, Arg(rt))

\* fn returns to RunWithOwner, which restores the tracker's owner
OwnerReturn ==
    /\ ~Idle(rt)
    /\ Top(rt).k = "owner"
    /\ rt.panicking = <<>>
    /\ Top(rt).list = <<>>
    /\ rt' = ExitCheck(RestoreOwner(Pop(rt), Top(rt)), Top(rt))

\* fn returns to RunUntracked, which restores the tracking flag
UntrackedReturn ==
    /\ ~Idle(rt)
    /\ Top(rt).k = "untracked"
    /\ rt.panicking = <<>>
    /\ Top(rt).list = <<>>
    /\ rt' = ExitCheck(RestoreTracking(Pop(rt), Top(rt)), Top(rt))

\* the top level of the program, or a call of the host, is done
MainReturn ==
    /\ ~Idle(rt)
    /\ Top(rt).k = "main"
    /\ rt.panicking = <<>>
    /\ Top(rt).list = <<>>
    /\ rt' = Pop(rt)

\* a panic leaves RunWithComputation: the deferred restore, then the
\* deferred node.recover(); if the panic stopped there the caller goes on
UnwindBody ==
    /\ ~Idle(rt)
    /\ Top(rt).k = "body"
    /\ rt.panicking # <<>>
    /\ LET fr == Top(rt)
           s1 == recover(RestoreComputation(Pop(rt), fr), fr.node, fr)
           s2 == ExitCheck(s1, fr)
       IN rt' = IF s2.panicking = <<>> THEN AfterRun(s2, fr) ELSE s2

\* a panic leaves RunWithOwner: the deferred restore, then owner.recover()
UnwindOwner ==
    /\ ~Idle(rt)
    /\ Top(rt).k = "owner"
    /\ rt.panicking # <<>>
    /\ LET fr == Top(rt)
       IN rt' = ExitCheck(recover(RestoreOwner(Pop(rt), fr), fr.node, fr), fr)

\* a panic leaves RunUntracked: the deferred restore
UnwindUntracked ==
    /\ ~Idle(rt)
    /\ Top(rt).k = "untracked"
    /\ rt.panicking # <<>>
    /\ rt' = ExitCheck(RestoreTracking(Pop(rt), Top(rt)), Top(rt))

\* a panic reaches the host, which recovers it (as a test does)
UnwindMain ==
    /\ ~Idle(rt)
    /\ Top(rt).k = "main"
    /\ rt.panicking # <<>>
    /\ rt' = [Log(Pop(rt), "escaped", "host", rt.panicking[1]) EXCEPT !.panicking = <<>>]

\* the host of the third program writes es
PanicWrite(v) ==
    /\ Idle(rt)
    /\ rt.scheduler.clock < MaxClock
    /\ rt' = Write(HostOp(rt, [NoOp EXCEPT !.kind = "write", !.sig = "es",
                                          !.chg = ~isEqual(Value(rt, "es"), v)]), "es", v)

\* the host calls o.Run(f)
HostRun(o, f) ==
    /\ Idle(rt)
    /\ rt' = Push(HostOp(rt, [NoOp EXCEPT !.kind = "run"]),
                  Frame("main", "ops", NoNode, << <<"Run", o, f>> >>, NoNode, Nil, FALSE, FALSE))

\* the host writes a signal of the second program, while the names of the
\* effects the re-run bodies create last
OwnerWrite(s, v) ==
    /\ Idle(rt)
    /\ rt.scheduler.clock < MaxClock
    /\ \A base \in {"q", "u"} : Cardinality(rt.created \cap Incs(base)) < MaxNested
    /\ rt' = Write(HostOp(rt, [NoOp EXCEPT !.kind = "write", !.sig = s,
                                          !.chg = ~isEqual(Value(rt, s), v)]), s, v)

\* the host calls o.Dispose()
OwnerDispose ==
    /\ Idle(rt)
    /\ rt' = Dispose(HostOp(rt, [NoOp EXCEPT !.kind = "dispose"]), "o")

\* ---------------------------------------------- Runtime.Flush, Scheduler.Run
AtFlush(pcs) ==
    ~Idle(rt) /\ Top(rt).k = "flush" /\ Top(rt).pc \in pcs /\ rt.panicking = <<>>
Goto(st, pc) == SetTop(st, [Top(st) EXCEPT !.pc = pc])

\* (mutant) Scheduler.Run starts its loop whatever the running flag says
FlushEnterAlways ==
    /\ AtFlush({"enter"})
    /\ ~rt.mu
    /\ rt' = SetTop([Lock(rt) EXCEPT !.scheduler.running = TRUE],
                    [Top(rt) EXCEPT !.pc = "loop", !.count = 0,
                                    !.h_clock = rt.scheduler.clock])

\* Runtime.Flush takes the mutex (it waits while the mutex is held), then
\* Scheduler.Run: the compare-and-swap of running, count := 0
FlushEnter ==
    /\ AtFlush({"enter"})
    /\ ~rt.mu
    /\ rt' = IF rt.scheduler.running
             THEN Goto(Lock(rt), "settled")
             ELSE SetTop([Lock(rt) EXCEPT !.scheduler.running = TRUE],
                         [Top(rt) EXCEPT !.pc = "loop", !.count = 0,
                                         !.h_clock = rt.scheduler.clock])

\* the error Scheduler.Run returns
InfiniteLoop == "possible infinite update loop detected"

\* a panic leaves the activation that was on top of the stack: it goes on
\* in the caller, or reaches the host, which recovers it (as a test does)
Raise(st, r) ==
    IF st.stack = <<>> THEN Log(st, "escaped", "host", r)
    ELSE [st EXCEPT !.panicking = <<r>>]

\* Runtime.Flush when Scheduler.Run returned err: panic(err), the deferred
\* r.mu.Unlock() runs and the panic leaves Flush
FlushPanic(st, err) ==
    LET passes == st.scheduler.clock - Top(st).h_clock
        s1 == [Log(st, "failed", "flush", ToString(passes)) EXCEPT !.h_fails = @ + 1,
                                                                     !.h_pass = NoPass]
    IN Raise(Unlock(Pop(s1)), err)

\* (mutant) Scheduler.Run returns without resetting running
RunReturnKeep(st) == st

\* Scheduler.Run returns: the deferred s.running.Store(false)
RunReturn(st) == [st EXCEPT !.scheduler.running = FALSE]

\* (mutant) the loop tests the counter before it counts the pass
SchedulerLoopLate ==
    /\ AtFlush({"loop"})
    /\ rt' = IF ~rt.scheduler.scheduled
             THEN Goto(RunReturn([rt EXCEPT !.h_pass = NoPass]), "settled")
             ELSE IF Top(rt).count > LoopLimit
             THEN FlushPanic(RunReturn([rt EXCEPT !.scheduler.scheduled = FALSE]),
                             InfiniteLoop)
             ELSE SetTop([rt EXCEPT !.scheduler.scheduled = FALSE,
                                    !.scheduler.clock = @ + 1,
                                    !.heap.min = 0,
                                    !.h_drained = NoDrained,
                                    !.h_pass = NoPass],
                         [Top(rt) EXCEPT !.pc = "drain", !.count = @ + 1])

\* Scheduler.Run: the head of the loop, for s.scheduled.Swap(false); count++
\* and the test of the counter; the deferred running.Store(false) on return
SchedulerLoop ==
    /\ AtFlush({"loop"})
    /\ rt' = IF ~rt.scheduler.scheduled
             THEN Goto(RunReturn([rt EXCEPT !.h_pass = NoPass]), "settled")
             ELSE IF Top(rt).count + 1 > LoopLimit
             THEN FlushPanic(RunReturn([rt EXCEPT !.scheduler.scheduled = FALSE]),
                             InfiniteLoop)
             ELSE SetTop([rt EXCEPT !.scheduler.scheduled = FALSE,
                                    !.scheduler.clock = @ + 1,
                                    !.heap.min = 0,
                                    !.h_drained = NoDrained,
                                    !.h_pass = NoPass],
                         [Top(rt) EXCEPT !.pc = "drain", !.count = @ + 1])

\* the buckets of min..max that hold an entry
Pending(st) == {h \in st.heap.min..st.heap.max : st.heap.nodes[h] # <<>>}
\* (mutant) the drain walks the buckets from the highest down
Highest(S) == CHOOSE h \in S : \A k \in S : h >= k

Lowest(S) == CHOOSE h \in S : \A k \in S : h <= k

\* the entries of bucket h that Insert put in the heap, oldest first
Inserted(st, h) == SelectSeq(st.h_ins, LAMBDA x : x \in Range(st.heap.nodes[h]))

\* PriorityHeap.Drain: one turn of the inner loop (Remove, process)
DrainStep ==
    /\ AtFlush({"drain"})
    /\ Pending(rt) # {}
    /\ \A typ \in DOMAIN rt.effectQueue : Len(rt.effectQueue[typ]) < MaxQueue
    /\ LET h == Lowest(Pending(rt))
           node == Head(rt.heap.nodes[h])
           s1 == [rt EXCEPT !.heap.min = h,
                            !.h_drained = [node |-> node, height |-> rt.height[node],
                                           prev |-> @.height,
                                           first |-> IF Inserted(rt, h) = <<>> THEN NoNode
                                                     ELSE Head(Inserted(rt, h))]]
           s2 == Remove(s1, node)
       IN rt' = IF s2.panicking # <<>> THEN s2 ELSE recompute(s2, node)

\* PriorityHeap.Drain: the loops end, max is reset
DrainDone ==
    /\ AtFlush({"drain"})
    /\ Pending(rt) = {}
    /\ rt' = Goto([rt EXCEPT !.heap.min = rt.heap.max + 1, !.heap.max = 0,
                             !.h_drained = NoDrained], "commit")

\* (mutant) RunEffects runs the lane from its last closure to its first
TakeLaneBackwards(st, typ) ==
    LET q == st.effectQueue[typ]
    IN SetTop([st EXCEPT !.effectQueue[typ] = <<>>],
              [Top(st) EXCEPT !.pc = typ,
                              !.list = [i \in 1..Len(q) |-> q[Len(q) + 1 - i]]])

\* EffectQueue.RunEffects: the lane is copied and cleared, then run
TakeLane(st, typ) ==
    SetTop([st EXCEPT !.effectQueue[typ] = <<>>],
           [Top(st) EXCEPT !.pc = typ, !.list = st.effectQueue[typ]])

\* (mutant) the pass body keeps the mutex while the lanes run
CommitStepHeld ==
    /\ AtFlush({"commit"})
    /\ rt' = TakeLane(QueueCommit(rt), "render")

\* the pass body after the drain: nodeQueue.Commit, the mutex is released,
\* then the render lane starts
CommitStep ==
    /\ AtFlush({"commit"})
    /\ rt' = TakeLane(Unlock(QueueCommit(rt)), "render")

\* SettledQueue.Run: callbacks := q.callbacks; q.callbacks = q.callbacks[:0],
\* then the callbacks run in order (the history keeps what was taken)
TakeSettled(st, q) ==
    SetTop([st EXCEPT !.settled[q] = <<>>],
           [Top(st) EXCEPT !.pc = SettledPc(q), !.list = st.settled[q], !.base = 0,
                           !.shared = TRUE, !.h_taken = st.settled[q]])

\* SettledQueue.Run returns: its slice is gone
DropSettled(st) ==
    SetTop(st, [Top(st) EXCEPT !.base = 0, !.shared = FALSE, !.h_taken = <<>>])

\* (mutant) the pass body goes from the render lane to the user lane
AfterRenderSkip(st) == TakeLane(st, "user")

\* after the render lane its settled queue runs, then the user lane
AfterRender(st) == IF st.settled.render = <<>> THEN TakeLane(st, "user")
                   ELSE TakeSettled(st, "render")

\* one effect closure of the lane being run
RunEffect ==
    /\ AtFlush({"render", "user"})
    /\ Top(rt).list # <<>>
    /\ LET fr == Top(rt)
       IN rt' = EffectClosure(SetTop(rt, [fr EXCEPT !.list = Tail(@)]), Head(fr.list))

\* a lane is done: after render, the user lane; after user, the mutex is
\* taken again (it waits while the mutex is held) and the loop goes on
LaneDone ==
    /\ AtFlush({"render", "user"})
    /\ Top(rt).list = <<>>
    /\ (Top(rt).pc = "user" /\ rt.settled.user = <<>>) => ~rt.mu
    /\ rt' = IF Top(rt).pc = "render" THEN AfterRender(rt)
             ELSE IF rt.settled.user = <<>> THEN Goto(Lock(rt), "loop")
             ELSE TakeSettled(rt, "user")

\* one callback of the settled queue being run
RunSettled ==
    /\ AtFlush({"renderSettled", "userSettled", "topSettled"})
    /\ Top(rt).list # <<>>
    /\ LET fr == Top(rt)
           q == CHOOSE x \in {"top", "user", "render"} : SettledPc(x) = fr.pc
           cb == Head(fr.list)
           s1 == Log([SetTop(rt, [fr EXCEPT !.list = Tail(@), !.base = @ + 1])
                         EXCEPT !.h_ran[q] = @ + 1],
                     "settled", cb, fr.pc)
           ops == CallbackOps(s1, cb, q)
       IN rt' = IF ops = <<>> THEN s1
                ELSE Push(s1, Frame("callback", "ops", NoNode, ops, NoNode, Nil, FALSE, FALSE))

\* a settled queue is done
SettledDone ==
    /\ AtFlush({"renderSettled", "userSettled", "topSettled"})
    /\ Top(rt).list = <<>>
    /\ Top(rt).pc = "userSettled" => ~rt.mu
    /\ rt' = IF Top(rt).pc = "renderSettled" THEN TakeLane(DropSettled(rt), "user")
             ELSE IF Top(rt).pc = "userSettled" THEN Goto(Lock(DropSettled(rt)), "loop")
             ELSE Pop(Unlock(rt))

\* Runtime.Flush after Scheduler.Run returned nil: r.settledQueue.Run(), then
\* Flush returns and the deferred r.mu.Unlock() runs
FlushReturn ==
    /\ AtFlush({"settled"})
    /\ rt' = IF rt.settled.top = <<>> THEN Pop(Unlock(rt)) ELSE TakeSettled(rt, "top")

\* the stages of Flush that are inside Scheduler.Run's loop
LoopPcs ==
    {"loop", "drain", "commit", "render", "renderSettled", "user", "userSettled"}

\* a panic leaves Flush: the deferred running.Store(false) if it leaves
\* Scheduler.Run, then the deferred r.mu.Unlock(), which ends the process
\* ("fatal error: sync: unlock of unlocked mutex") if the mutex is not held
UnwindFlush ==
    /\ ~Idle(rt)
    /\ Top(rt).k = "flush"
    /\ rt.panicking # <<>>
    /\ LET s1 == IF Top(rt).pc \in LoopPcs THEN RunReturn(rt) ELSE rt
           s2 == Unlock(Pop(s1))
       IN rt' = IF ~s1.mu
                THEN [s1 EXCEPT !.stack = <<>>, !.panicking = <<>>,
                                !.h_bad = @ \cup {"unlock of unlocked mutex"}]
                ELSE IF s2.stack # <<>> THEN s2
                ELSE [Log(s2, "escaped", "host", s2.panicking[1]) EXCEPT !.panicking = <<>>]

Init == rt = NewRuntime

Next ==
    \/ HostNewComputed
    \/ HostNewEffect
    \/ \E s \in DiamondSignals, v \in 0..MaxVal : HostWrite(s, v)
    \/ \E n \in Nodes : HostRead(n)
    \/ HostBatchBegin
    \/ HostBatchEnd
    \/ BodyWrite
    \/ BodyReturn
    \/ FlushEnter
    \/ SchedulerLoop
    \/ DrainStep
    \/ DrainDone
    \/ CommitStep
    \/ RunEffect
    \/ LaneDone
    \/ FlushReturn

Spec == Init /\ [][Next]_vars

\* the first program with a host that writes and batches for one more pass
\* of the scheduler and does not read
PruneClock == 3

PruneWrite(s, v) == HostWriteBelow(PruneClock, s, v)

NextPrune ==
    \/ HostNewComputed
    \/ HostNewEffect
    \/ \E s \in DiamondSignals, v \in 0..MaxVal : PruneWrite(s, v)
    \/ HostBatchBegin
    \/ HostBatchEnd
    \/ BodyWrite
    \/ BodyReturn
    \/ FlushEnter
    \/ SchedulerLoop
    \/ DrainStep
    \/ DrainDone
    \/ CommitStep
    \/ RunEffect
    \/ LaneDone
    \/ FlushReturn

SpecPrune == Init /\ [][NextPrune]_vars

\* the second program: its top level runs, then the host writes and disposes
InitOwner ==
    rt = Push(NewRuntime, Frame("main", "ops", NoNode, OwnerMain, NoNode, Nil, FALSE, FALSE))

NextOwner ==
    \/ BodyRead
    \/ BodyOnCleanup
    \/ BodyNewOwner
    \/ BodyOnDispose
    \/ BodyNewEffect
    \/ BodyNewComputed
    \/ BodyDispose
    \/ BodyRun
    \/ BodyReturn
    \/ OwnerReturn
    \/ MainReturn
    \/ \E s \in OwnerSignals, v \in 0..MaxVal : OwnerWrite(s, v)
    \/ OwnerDispose
    \/ FlushEnter
    \/ SchedulerLoop
    \/ DrainStep
    \/ DrainDone
    \/ CommitStep
    \/ RunEffect
    \/ LaneDone
    \/ FlushReturn

SpecOwner == InitOwner /\ [][NextOwner]_vars

\* the third program: its top level runs, then the host writes es and
\* calls in.Run and bare.Run with functions that panic
InitPanic ==
    rt = Push(NewRuntime, Frame("main", "ops", NoNode, PanicMain, NoNode, Nil, FALSE, FALSE))

NextPanic ==
    \/ BodyRead
    \/ BodyNewOwner
    \/ BodyOnError
    \/ BodyNewEffect
    \/ BodyRun
    \/ BodyUntrack
    \/ BodyPanic
    \/ BodyReturn
    \/ OwnerReturn
    \/ UntrackedReturn
    \/ MainReturn
    \/ UnwindBody
    \/ UnwindOwner
    \/ UnwindUntracked
    \/ UnwindMain
    \/ \E v \in 0..MaxVal : PanicWrite(v)
    \/ \E o \in {"in", "bare"}, f \in {"boom3", "boom4"} : HostRun(o, f)
    \/ FlushEnter
    \/ SchedulerLoop
    \/ DrainStep
    \/ DrainDone
    \/ CommitStep
    \/ RunEffect
    \/ LaneDone
    \/ FlushReturn

SpecPanic == InitPanic /\ [][NextPanic]_vars

\* the values the host of the fourth program writes
LoopVals == 0..2
\* the host of the fourth program writes while the clock is below LoopClock
LoopClock == 3 * LoopLimit

\* the host of the fourth program writes ls
LoopWrite(v) ==
    /\ Idle(rt)
    /\ rt.scheduler.clock < LoopClock
    /\ rt' = Write(HostOp(rt, [NoOp EXCEPT !.kind = "write", !.sig = "ls",
                                          !.chg = ~isEqual(Value(rt, "ls"), v)]), "ls", v)

\* the fifth program: its top level runs, then the host writes la and
\* registers settled callbacks
LaneVals == 0..2
LaneClock == 6
MaxSettled == 2

Callback(q) == IF q = "top" THEN "cs" ELSE IF q = "user" THEN "cu" ELSE "cr"

LaneWrite(v) ==
    /\ Idle(rt)
    /\ rt.scheduler.clock < LaneClock
    /\ rt' = Write(HostOp(rt, [NoOp EXCEPT !.kind = "write", !.sig = "la",
                                          !.chg = ~isEqual(Value(rt, "la"), v)]), "la", v)

\* the host calls OnSettled, OnUserSettled or OnRenderSettled
LaneOnSettled(q) ==
    /\ Idle(rt)
    /\ rt.h_reg[q] < MaxSettled
    /\ rt.settled[q] = <<>>
    /\ rt' = OnSettled(rt, q, Callback(q))

InitLane ==
    rt = Push(NewRuntime, Frame("main", "ops", NoNode, LaneMain, NoNode, Nil, FALSE, FALSE))

NextLane ==
    \/ BodyNewEffect
    \/ BodyWrite
    \/ BodyBatch
    \/ BatchReturn
    \/ BodyReturn
    \/ MainReturn
    \/ \E v \in LaneVals : LaneWrite(v)
    \/ \E q \in {"top", "user", "render"} : LaneOnSettled(q)
    \/ FlushEnter
    \/ SchedulerLoop
    \/ DrainStep
    \/ DrainDone
    \/ CommitStep
    \/ RunEffect
    \/ LaneDone
    \/ RunSettled
    \/ SettledDone
    \/ FlushReturn

SpecLane == InitLane /\ [][NextLane]_vars

\* the seventh program: the main goroutine runs the top level and then
\* writes ga, the other goroutine runs its loops, in every interleaving of
\* their steps
GoMax == 2
GoClock == 1

\* (mutant) GetRuntime gives every goroutine the Runtime of the main goroutine
SwitchShared ==
    rt' = [rt EXCEPT !.g = MainGID + OtherGID - rt.g,
                     !.stack = rt.parked.stack,
                     !.panicking = rt.parked.panicking,
                     !.parked.stack = rt.stack,
                     !.parked.panicking = rt.panicking]

\* the other goroutine goes on: what GetRuntime returns from now on is the
\* Runtime stored under its goroutine id
Switch ==
    rt' = [rt EXCEPT !.g = MainGID + OtherGID - rt.g,
                     !.heap = rt.parked.heap,
                     !.scheduler = rt.parked.scheduler,
                     !.batcher = rt.parked.batcher,
                     !.effectQueue = rt.parked.effectQueue,
                     !.settled = rt.parked.settled,
                     !.settledCap = rt.parked.settledCap,
                     !.nodeQueue = rt.parked.nodeQueue,
                     !.tracker = rt.parked.tracker,
                     !.executingGID = rt.parked.executingGID,
                     !.mu = rt.parked.mu,
                     !.stack = rt.parked.stack,
                     !.panicking = rt.parked.panicking,
                     !.h_pass = rt.parked.h_pass,
                     !.h_ins = rt.parked.h_ins,
                     !.h_drained = rt.parked.h_drained,
                     !.parked = [f \in PerRuntime |-> rt[f]]]

\* wg.Go(fn): the loop on signal s of the other goroutine is started
BodyGo ==
    /\ AtCall("Go")
    /\ rt' = [Called(rt) EXCEPT !.spawned = @ \cup {Arg(rt)}]

\* the main goroutine writes ga
GoMainWrite(v) ==
    /\ rt.g = MainGID
    /\ Idle(rt)
    /\ rt.scheduler.clock < GoClock
    /\ rt' = Write(IF isEqual(Value(rt, "ga"), v) THEN rt
                   ELSE Log(rt, "write", "ga", "changed"), "ga", v)

\* the other goroutine evaluates the condition of its loop on s: s.Read()
GoRead(s) ==
    /\ rt.g = OtherGID
    /\ Idle(rt)
    /\ s \in rt.spawned \cup {"gb"}
    /\ rt' = [Read(rt, s) EXCEPT !.h_read =
                 [sig |-> s, v |-> Value(rt, s), committed |-> rt.value[s],
                  pending |-> rt.pendingValue[s]]]

\* the other goroutine runs the body of its loop on s: s.Write(s.Read() + 1)
GoWrite(s) ==
    /\ rt.g = OtherGID
    /\ Idle(rt)
    /\ s \in rt.spawned \cup {"gb"}
    /\ Value(rt, s) < GoMax
    /\ rt' = Write(Read(rt, s), s, Value(rt, s) + 1)

InitGo ==
    rt = Push(NewRuntime, Frame("main", "ops", NoNode, GoMain, NoNode, Nil, FALSE, FALSE))

NextGo ==
    \/ Switch
    \/ BodyNewEffect
    \/ BodyOnCleanup
    \/ BodyGo
    \/ BodyReturn
    \/ MainReturn
    \/ \E v \in 0..1 : GoMainWrite(v)
    \/ \E s \in {"gb", "gn"} : GoRead(s)
    \/ \E s \in {"gb", "gn"} : GoWrite(s)
    \/ FlushEnter
    \/ SchedulerLoop
    \/ DrainStep
    \/ DrainDone
    \/ CommitStep
    \/ RunEffect
    \/ LaneDone
    \/ FlushReturn

SpecGo == InitGo /\ [][NextGo]_vars

\* the sixth program: its top level runs, then the host writes ha and hy
HeapVals == 0..2
HeapClock == 4

HeapWrite(s, v) ==
    /\ Idle(rt)
    /\ rt.scheduler.clock < HeapClock
    /\ rt' = Write(HostOp(rt, [NoOp EXCEPT !.kind = "write", !.sig = s,
                                          !.chg = ~isEqual(Value(rt, s), v)]), s, v)

InitHeap ==
    rt = Push(NewRuntime, Frame("main", "ops", NoNode, HeapMain, NoNode, Nil, FALSE, FALSE))

NextHeap ==
    \/ BodyNewComputed
    \/ BodyNewEffect
    \/ BodyRead
    \/ BodyWrite
    \/ BodyReturn
    \/ MainReturn
    \/ \E s \in HeapSignals, v \in HeapVals : HeapWrite(s, v)
    \/ FlushEnter
    \/ SchedulerLoop
    \/ DrainStep
    \/ DrainDone
    \/ CommitStep
    \/ RunEffect
    \/ LaneDone
    \/ FlushReturn

SpecHeap == InitHeap /\ [][NextHeap]_vars

\* the eighth program: its top level runs, then the host writes pc, pu, pt
MemoVals == 0..2
MemoClock == 3

\* the host writes a signal of the eighth program (the history keeps the
\* value the signal held)
MemoWrite(s, v) ==
    /\ Idle(rt)
    /\ rt.scheduler.clock < MemoClock
    /\ rt' = Write(HostOp(rt, [NoOp EXCEPT !.kind = "write", !.sig = s,
                                          !.chg = ~isEqual(Value(rt, s), v),
                                          !.n = Value(rt, s)]), s, v)

InitMemo ==
    rt = Push(NewRuntime, Frame("main", "ops", NoNode, MemoMain, NoNode, Nil, FALSE, FALSE))

NextMemo ==
    \/ BodyNewComputed
    \/ BodyNewEffect
    \/ BodyRead
    \/ BodyUntrack
    \/ UntrackedReturn
    \/ BodyReturn
    \/ MainReturn
    \/ \E s \in MemoSignals, v \in MemoVals : MemoWrite(s, v)
    \/ FlushEnter
    \/ SchedulerLoop
    \/ DrainStep
    \/ DrainDone
    \/ CommitStep
    \/ RunEffect
    \/ LaneDone
    \/ FlushReturn

SpecMemo == InitMemo /\ [][NextMemo]_vars

\* the ninth program: its top level runs, then the host writes da and
\* registers settled callbacks
SettleVals == 0..2
SettleClock == 2
\* the callbacks the host registers over a behaviour
SettleRegs == 2

SettleWrite(v) ==
    /\ Idle(rt)
    /\ rt.scheduler.clock < SettleClock
    /\ rt' = Write(HostOp(rt, [NoOp EXCEPT !.kind = "write", !.sig = "da",
                                          !.chg = ~isEqual(Value(rt, "da"), v)]), "da", v)

\* the host calls OnSettled, OnUserSettled or OnRenderSettled
SettleOnSettled(q, cb) ==
    /\ Idle(rt)
    /\ rt.h_reg.top + rt.h_reg.user + rt.h_reg.render < SettleRegs
    /\ cb = "cw" => q = "top"
    /\ rt' = OnSettled(rt, q, cb)

InitSettle ==
    rt = Push(NewRuntime, Frame("main", "ops", NoNode, SettleMain, NoNode, Nil, FALSE, FALSE))

NextSettle ==
    \/ BodyNewComputed
    \/ BodyNewEffect
    \/ BodyWrite
    \/ BodyOnSettled
    \/ BodyReturn
    \/ CallbackReturn
    \/ MainReturn
    \/ \E v \in SettleVals : SettleWrite(v)
    \/ \E q \in {"top", "user", "render"}, cb \in {"cw", "c1", "c2"} : SettleOnSettled(q, cb)
    \/ FlushEnter
    \/ SchedulerLoop
    \/ DrainStep
    \/ DrainDone
    \/ CommitStep
    \/ RunEffect
    \/ LaneDone
    \/ RunSettled
    \/ SettledDone
    \/ FlushReturn

SpecSettle == InitSettle /\ [][NextSettle]_vars

\* the tenth program: its top level runs, then the host writes xs while the
\* process lives
UnlockVals == 0..3
UnlockClock == 4

UnlockWrite(v) ==
    /\ Idle(rt)
    /\ rt.scheduler.clock < UnlockClock
    /\ "unlock of unlocked mutex" \notin rt.h_bad
    /\ rt' = Write(HostOp(rt, [NoOp EXCEPT !.kind = "write", !.sig = "xs",
                                          !.chg = ~isEqual(Value(rt, "xs"), v)]), "xs", v)

InitUnlock ==
    rt = Push(NewRuntime, Frame("main", "ops", NoNode, UnlockMain, NoNode, Nil, FALSE, FALSE))

NextUnlock ==
    \/ BodyNewComputed
    \/ BodyNewEffect
    \/ BodyPanic
    \/ BodyReturn
    \/ MainReturn
    \/ UnwindBody
    \/ UnwindFlush
    \/ \E v \in UnlockVals : UnlockWrite(v)
    \/ FlushEnter
    \/ SchedulerLoop
    \/ DrainStep
    \/ DrainDone
    \/ CommitStep
    \/ RunEffect
    \/ LaneDone
    \/ FlushReturn

SpecUnlock == InitUnlock /\ [][NextUnlock]_vars

\* the eleventh program: the main goroutine runs the top level, then it
\* writes ja and the other goroutine writes jb, in every interleaving of
\* their steps
RaceVals == 0..1
RaceClock == 1

\* goroutine g writes its signal
RaceWrite(g, s, v) ==
    /\ rt.g = g
    /\ Idle(rt)
    /\ g = OtherGID => s \in rt.spawned
    /\ rt.scheduler.clock < RaceClock
    /\ rt' = Write(rt, s, v)

InitRace ==
    rt = Push(NewRuntime, Frame("main", "ops", NoNode, RaceMain, NoNode, Nil, FALSE, FALSE))

NextRace ==
    \/ Switch
    \/ BodyNewComputed
    \/ BodyNewEffect
    \/ BodyGo
    \/ BodyReturn
    \/ MainReturn
    \/ \E v \in RaceVals : RaceWrite(MainGID, "ja", v)
    \/ \E v \in RaceVals : RaceWrite(OtherGID, "jb", v)
    \/ FlushEnter
    \/ SchedulerLoop
    \/ DrainStep
    \/ DrainDone
    \/ CommitStep
    \/ RunEffect
    \/ LaneDone
    \/ FlushReturn

SpecRace == InitRace /\ [][NextRace]_vars

\* the twelfth program: its top level runs, then the host writes ts (and
\* recovers what a Write panics with)
TallVals == 0..2
TallClock == 6

TallWrite(v) ==
    /\ Idle(rt)
    /\ rt.scheduler.clock < TallClock
    /\ rt' = Write(HostOp(rt, [NoOp EXCEPT !.kind = "write", !.sig = "ts",
                                          !.chg = ~isEqual(Value(rt, "ts"), v)]), "ts", v)

InitTall ==
    rt = Push(NewRuntime, Frame("main", "ops", NoNode, TallMain, NoNode, Nil, FALSE, FALSE))

NextTall ==
    \/ BodyNewComputed
    \/ BodyNewEffect
    \/ BodyReturn
    \/ MainReturn
    \/ UnwindFlush
    \/ \E v \in TallVals : TallWrite(v)
    \/ FlushEnter
    \/ SchedulerLoop
    \/ DrainStep
    \/ DrainDone
    \/ CommitStep
    \/ RunEffect
    \/ LaneDone
    \/ FlushReturn

SpecTall == InitTall /\ [][NextTall]_vars

\* the fourth program: its top level runs, then the host writes ls
InitLoop ==
    rt = Push(NewRuntime, Frame("main", "ops", NoNode, LoopMain, NoNode, Nil, FALSE, FALSE))

\* the steps the goroutine of the host takes inside a call of the library
LoopSteps ==
    \/ BodyNewEffect
    \/ BodyWrite
    \/ BodyReturn
    \/ MainReturn
    \/ FlushEnter
    \/ SchedulerLoop
    \/ DrainStep
    \/ DrainDone
    \/ CommitStep
    \/ RunEffect
    \/ LaneDone
    \/ FlushReturn

NextLoop ==
    \/ \E v \in LoopVals : LoopWrite(v)
    \/ LoopSteps

SpecLoop == InitLoop /\ [][NextLoop]_vars

\* a call of the library runs on the goroutine of its caller, which goes on
\* until the call returns or panics
SpecLoopFair == SpecLoop /\ WF_vars(LoopSteps)

TypeOK == rt.batcher.depth \in 0..MaxBatchDepth

\* ----------------------------------------------------------------- claims
InHeap(st) == {c \in Computeds : HasFlag(st, c, "InHeap")}
Draining(st) == \E i \in 1..Len(st.stack) : st.stack[i].k = "flush" /\ st.stack[i].pc = "drain"
\* the body of an effect, started by its closure on a lane, is about to run
EffectBody(st) ==
    /\ ~Idle(st)
    /\ Top(st).k = "body"
    /\ Top(st).node \in Effects
    /\ st.h_obs.closure

\* C1: every run of d (a memo) and of e (an effect), which read both b and c,
\* observes b and c computed from the value of a current at that run: never
\* one branch updated and the other still holding its old value.
NoGlitchDiamond ==
    rt.h_obs.node \in {"d", "e"} =>
        /\ rt.h_obs.vals[1] = 2 * rt.h_obs.a
        /\ rt.h_obs.vals[2] = 4 * rt.h_obs.a

\* a run of d caused by a value-changing Write(a, 1) made outside a batch
NoGlitchDiamondWitness ==
    /\ rt.h_op.kind = "write" /\ rt.h_op.sig = "a" /\ rt.h_op.chg
    /\ rt.h_obs.node = "d" /\ rt.h_obs.a = 1
    /\ rt.h_obs.vals = <<2, 4>>

\* C2: when the body of an effect runs in a flush pass, no signal or memo
\* it reads still holds a pending value: the pending values were committed
\* after the drain of the pass and before the effects.
CommittedBeforeEffects ==
    EffectBody(rt) =>
        \A n \in Range(ReadList(rt, Top(rt).node)) : rt.pendingValue[n] = <<>>

\* C3 (as claimed): while pending_value is set, a Read inside the node being
\* recomputed returns pending_value and a Read outside any recomputation
\* returns the committed value.
PendingSeenInsideOnly ==
    /\ \A i \in 1..Len(rt.h_obs.vals) :
           rt.h_obs.pend[i] # <<>> => rt.h_obs.vals[i] = rt.h_obs.pend[i][1]
    /\ (rt.h_read.sig # NoNode /\ rt.h_read.pending # <<>>) =>
           rt.h_read.v = rt.h_read.committed

\* C3 (amended): while pending_value is set, a Read returns pending_value,
\* inside the node being recomputed and outside any recomputation alike.
PendingSeenEverywhere ==
    /\ \A i \in 1..Len(rt.h_obs.vals) :
           rt.h_obs.pend[i] # <<>> => rt.h_obs.vals[i] = rt.h_obs.pend[i][1]
    /\ (rt.h_read.sig # NoNode /\ rt.h_read.pending # <<>>) =>
           rt.h_read.v = rt.h_read.pending[1]

\* a Read by the host, outside any recomputation, of a signal whose pending
\* value differs from its committed value
PendingSeenEverywhereWitness ==
    /\ rt.h_read.sig \in Signals
    /\ rt.h_read.pending # <<>>
    /\ rt.h_read.pending[1] # rt.h_read.committed
    /\ rt.tracker.currentComputation = NoNode

\* C4: a Read of a signal returns the value of the last Write to it that
\* has returned, also when both are inside a Batch whose flush has not run.
ReadAfterWrite ==
    rt.h_read.sig \in Signals => rt.h_read.v = rt.h_lastW[rt.h_read.sig]

\* a Read inside a batch of a signal written earlier in that batch
ReadAfterWriteWitness ==
    /\ rt.batcher.depth > 0
    /\ rt.scheduler.scheduled
    /\ rt.h_read.sig \in Signals
    /\ rt.h_read.pending # <<>>
    /\ rt.h_read.v # rt.h_read.committed
    /\ InHeap(rt) # {}

\* C5: within one drain a node is never recomputed after a node of greater
\* height, and the node taken from a bucket is the one inserted first among
\* the entries of the bucket that Insert put there (first is NoNode when the
\* bucket holds no such entry).
DrainOrder ==
    rt.h_drained.node # NoNode =>
        /\ rt.h_drained.prev <= rt.h_drained.height
        /\ rt.h_drained.first \in {NoNode, rt.h_drained.node}

\* c is recomputed after b, of the same height and inserted before it
DrainOrderWitness ==
    /\ rt.h_drained.node = "c"
    /\ rt.h_drained.prev = rt.h_drained.height
    /\ rt.h_drained.first = "c"
    /\ rt.h_runs["b"] = 1

\* C6: for every dependency link the subscriber's height is greater than
\* the dependency's, and during a drain every entry of the heap is in a
\* bucket the drain has not yet left.
HeightsIncrease ==
    /\ \A sub \in Computeds : \A dep \in Range(rt.deps[sub]) :
           rt.height[sub] > rt.height[dep]
    /\ Draining(rt) => \A c \in InHeap(rt) : \A h \in Buckets(rt, c) : h >= rt.heap.min

\* C7: when a value-changing Write made outside a batch and outside a flush
\* has returned, nothing is left to run: no node is in the heap, no effect
\* closure is queued and no pass is scheduled.
WriteRunsDependents ==
    (Idle(rt) /\ rt.h_op.kind = "write" /\ rt.h_op.chg) =>
        /\ InHeap(rt) = {}
        /\ \A typ \in DOMAIN rt.effectQueue : rt.effectQueue[typ] = <<>>
        /\ ~rt.scheduler.scheduled

\* C8: while a batch is active nothing is recomputed and no effect body
\* runs; the return of an inner Batch starts no flush and the return of the
\* outermost starts exactly one.
BatchDefersFlush ==
    [][rt.batcher.depth > 0 =>
          /\ rt.stack = <<>>
          /\ \A c \in Computeds : rt.h_runs[c] = 0
          /\ rt'.stack = IF rt'.batcher.depth = 0 THEN <<FlushFrame>> ELSE <<>>]_vars

\* writes were made inside a nested batch and their subscribers wait in the heap
BatchDefersFlushWitness ==
    /\ rt.batcher.depth >= 2
    /\ rt.scheduler.scheduled
    /\ InHeap(rt) # {}
    /\ rt.h_op.n >= 2

\* the nodes downstream of signal s through dependency links alone (g is
\* downstream of a only through the write e makes to w, which is one more
\* write in the flush and runs g once more)
Downstream(s) ==
    CASE s = "a" -> {"b", "c", "d", "m", "e"}
      [] s = "f" -> {"m", "g"}
      [] s = "w" -> {"g"}

EffectPruning ==
    /\ (rt.h_op.kind = "write" /\ ~rt.h_op.reach) => rt.h_runs["g"] = 0
    /\ (Idle(rt) /\ rt.h_op.kind = "write" /\ rt.h_op.chg /\ rt.h_op.inS) =>
           rt.h_runs["g"] >= 1

\* w, read by an earlier run of g and not by its last one, has been written
EffectPruningWitness ==
    /\ Idle(rt)
    /\ rt.h_op.kind = "write" /\ rt.h_op.sig = "w" /\ rt.h_op.chg
    /\ ~rt.h_op.inS
    /\ rt.h_runs["g"] = 0

\* ------------------------------------------- claims on owners and cleanups
\* the cleanups a run of the body of c registers, in order
CleanupsOf(c) ==
    LET ops == SelectSeq(BodyOps(rt, c), LAMBDA op : op[1] = "OnCleanup")
    IN [i \in 1..Len(ops) |-> ops[i][2]]

IsPrefix(s, t) == Len(s) <= Len(t) /\ s = SubSeq(t, 1, Len(s))

\* the positions of the history where a body of c starts a run after its first
Reruns(c) ==
    {i \in 1..Len(rt.h_log) : rt.h_log[i] = Event("run", c, "again")}

\* C11: a cleanup registered by a run of an effect runs exactly once: no
\* cleanup runs that is not waiting to be run (never twice); a later run of
\* the body is immediately preceded by the cleanups of the run before, in
\* order; while a body runs only the cleanups it registered itself wait
\* (none of an earlier run is left to run after the body started); and
\* once the effect is disposed none waits.
CleanupOnce ==
    /\ "cleanup not waiting" \notin rt.h_bad
    /\ \A c \in OwnerEffects : \A i \in Reruns(c) :
           LET cl == CleanupsOf(c)
           IN /\ i > Len(cl)
              /\ \A j \in 1..Len(cl) :
                     rt.h_log[i - Len(cl) + j - 1] = Event("cleanup", c, cl[j])
    /\ \A c \in OwnerEffects : IsPrefix(rt.h_pend[c], CleanupsOf(c))
    /\ \A c \in OwnerEffects : HasFlag(rt, c, "Disposed") => rt.h_pend[c] = <<>>

\* p has run a second time, its two cleanups right before the body, and
\* the cleanups of that second run wait
CleanupOnceWitness ==
    /\ \E i \in Reruns("p") : rt.h_log[i - 1] = Event("cleanup", "p", "cp2")
    /\ rt.h_pend["p"] = <<"cp1", "cp2">>
    /\ Idle(rt)

\* the effects the runs of the body of c create
ChildBase(c) == IF c = "p" THEN "q" ELSE "u"

\* C12: when the memo t or the effect p is re-run, the effect created by
\* its previous run has been disposed before the new body starts: in the
\* history its cleanup ran, then its dispose listener, then the cleanups of
\* the re-run node itself, then the body; a disposed node never runs a body;
\* and whenever a body has created its next effect the one before is
\* disposed with no cleanup left to run.
ChildrenDisposedFirst ==
    /\ "run when disposed" \notin rt.h_bad
    /\ \A c \in {"p", "t"} : \A i \in Reruns(c) :
           \E ch \in Incs(ChildBase(c)) : \E j \in 1..(i-1), k \in 1..(i-1) :
               /\ j < k
               /\ rt.h_log[j] = Event("cleanup", ch, CleanupsOf(ch)[1])
               /\ rt.h_log[k] = Event("disposed", ch, "computed")
               /\ \A l \in 1..i :
                      (rt.h_log[l].ev = "cleanup" /\ rt.h_log[l].o = c) => k < l /\ l < i
    /\ \A c \in {"p", "t"} : \A n \in 1..(MaxNested - 1) :
           Inc(ChildBase(c), n + 1) \in rt.created =>
               /\ HasFlag(rt, Inc(ChildBase(c), n), "Disposed")
               /\ rt.h_pend[Inc(ChildBase(c), n)] = <<>>

\* the effect p is re-run: q1, created by its first run, is disposed and q2
\* is created; the memo t was re-run before, which disposed u1
ChildrenDisposedFirstWitness ==
    /\ Reruns("p") # {}
    /\ HasFlag(rt, "q1", "Disposed") /\ "q2" \in rt.created
    /\ HasFlag(rt, "u1", "Disposed") /\ "u2" \in rt.created

\* d is below a in the owner tree
RECURSIVE IsDescendant(_, _)
IsDescendant(d, a) ==
    /\ rt.parent[d] # NoNode
    /\ (rt.parent[d] = a \/ IsDescendant(rt.parent[d], a))

\* the cleanups registered on owner a, in the order of the OnCleanup calls
Registered(a) ==
    IF a \in PureOwners
    THEN LET ops == SelectSeq(RunOps(a), LAMBDA op : op[1] = "OnCleanup")
         IN [i \in 1..Len(ops) |-> ops[i][2]]
    ELSE CleanupsOf(a)

\* the cleanups of owner a that the history shows, in the order they ran
Ran(a) ==
    LET evs == SelectSeq(rt.h_log, LAMBDA e : e.ev = "cleanup" /\ e.o = a)
    IN [i \in 1..Len(evs) |-> evs[i].fn]

\* C13: in a Dispose called by the host, once a cleanup of an owner has run
\* nothing of a descendant of that owner runs any more (neither a cleanup
\* nor a dispose listener), and the cleanups of an owner run in the order in
\* which they were registered.
DisposePostOrder ==
    rt.h_op.kind = "dispose" =>
        /\ \A j \in 1..Len(rt.h_log) : \A l \in (j+1)..Len(rt.h_log) :
               rt.h_log[j].ev = "cleanup" => ~IsDescendant(rt.h_log[l].o, rt.h_log[j].o)
        /\ \A a \in Owners : Ran(a) \in {<<>>, Registered(a)}

\* o.Dispose() has run the cleanups of o after those of the effect p, of the
\* nested effect q1 and the dispose listener of the child owner oc
DisposePostOrderWitness ==
    /\ rt.h_op.kind = "dispose"
    /\ Ran("o") = <<"co1", "co2">>
    /\ Ran("p") = <<"cp1", "cp2">>
    /\ Ran("q1") = <<"cq">>
    /\ \E i \in 1..Len(rt.h_log) : rt.h_log[i] = Event("disposed", "oc", "listener")

\* the owners, memos and effects the function passed to o.Run creates, in
\* the order of their creation
CreatedUnder(o) ==
    LET ops == SelectSeq(RunOps(o), LAMBDA op : op[1] \in {"NewOwner", "NewEffect", "NewComputed"})
    IN [i \in 1..Len(ops) |-> ops[i][2]]

\* the positions of the history where the dispose listeners of owner a ran
DisposedAt(a) == {i \in 1..Len(rt.h_log) : rt.h_log[i].ev = "disposed" /\ rt.h_log[i].o = a}

\* C14 (as claimed): Dispose disposes the direct children of an owner in
\* the order of their creation: of two children of o disposed by a Dispose
\* of the host, the one created first is disposed first.
ChildrenOldestFirst ==
    rt.h_op.kind = "dispose" =>
        \A m \in 1..Len(CreatedUnder("o")) : \A n \in (m+1)..Len(CreatedUnder("o")) :
            \A i \in DisposedAt(CreatedUnder("o")[m]) : \A j \in DisposedAt(CreatedUnder("o")[n]) :
                i < j

\* C14 (amended): Dispose disposes the direct children of an owner in the
\* reverse order of their creation: of two children of o disposed by a
\* Dispose of the host, the one created last is disposed first.
ChildrenNewestFirst ==
    rt.h_op.kind = "dispose" =>
        \A m \in 1..Len(CreatedUnder("o")) : \A n \in (m+1)..Len(CreatedUnder("o")) :
            \A i \in DisposedAt(CreatedUnder("o")[m]) : \A j \in DisposedAt(CreatedUnder("o")[n]) :
                j < i

\* o.Dispose() has disposed the four children of o: oc, p, r and t
ChildrenNewestFirstWitness ==
    /\ rt.h_op.kind = "dispose"
    /\ \A m \in 1..Len(CreatedUnder("o")) : DisposedAt(CreatedUnder("o")[m]) # {}
    /\ Len(CreatedUnder("o")) = 4

\* the positions of the history where a compute function or an effect body
\* started to run
Runs == {i \in 1..Len(rt.h_log) : rt.h_log[i].ev = "run"}

\* C15: once o is disposed, a write by the host to n or to k, which only the
\* memo and the effects created under o read, recomputes no memo and runs no
\* effect body, and leaves nothing to run: no node in the heap, no closure
\* on a lane.
DisposedStaysQuiet ==
    (rt.h_op.kind = "write" /\ rt.h_op.sig \in {"n", "k"} /\ "o" \in rt.h_disposed) =>
        /\ Runs = {}
        /\ InHeap(rt) = {}
        /\ \A typ \in DOMAIN rt.effectQueue : rt.effectQueue[typ] = <<>>

\* k, which r, t and an effect u read before o was disposed, has been
\* written a new value after the disposal and the write has returned
DisposedStaysQuietWitness ==
    /\ Idle(rt)
    /\ rt.h_op.kind = "write" /\ rt.h_op.sig = "k" /\ rt.h_op.chg
    /\ "o" \in rt.h_disposed
    /\ \A c \in {"r", "t", "u1"} : HasFlag(rt, c, "Disposed")

\* C16: the closure of an effect that was disposed after the closure was
\* pushed on its lane does nothing: once the dispose listener of an effect
\* has run, no body of that effect starts.
DisposedClosureSkipped ==
    \A i \in 1..Len(rt.h_log) : \A l \in (i+1)..Len(rt.h_log) :
        (rt.h_log[i].ev = "disposed" /\ rt.h_log[i].o \in OwnerEffects) =>
            rt.h_log[l] # Event("run", rt.h_log[i].o, "again")

\* in one pass the drain pushed the closures of x and p, the body of x
\* disposed o and with it p, and the closure of p was then taken from the lane
DisposedClosureSkippedWitness ==
    \E i \in Reruns("x") : \E j \in (i+1)..Len(rt.h_log) : \E l \in (j+1)..Len(rt.h_log) :
        /\ rt.h_log[j] = Event("disposed", "p", "computed")
        /\ rt.h_log[l] = Event("skip", "p", "closure")

\* -------------------------------------------------------- claims on panics
\* the positions of the history where a function of the program panicked
Panics == {i \in 1..Len(rt.h_log) : rt.h_log[i].ev = "panic"}

\* what the history shows of the handling of the panic at position i: the
\* calls of error listeners and the arrival at the host, up to the next panic
Handling(i) ==
    LET later == {j \in Panics : j > i}
        end == IF later = {} THEN Len(rt.h_log) + 1
               ELSE CHOOSE j \in later : \A k \in later : j <= k
    IN SelectSeq(SubSeq(rt.h_log, i + 1, end - 1),
                 LAMBDA e : e.ev \in {"caught", "escaped"})

\* the nearest owner, from o up through the parents, with an error listener
RECURSIVE Nearest(_)
Nearest(o) ==
    IF o = NoNode THEN NoNode
    ELSE IF Len(rt.errorListeners[o]) >= 1 THEN o
    ELSE Nearest(rt.parent[o])

\* the handling the claim asks for: every listener of the nearest owner that
\* has one is called with the value, in order, and nothing else; with no such
\* owner the panic arrives at the host
Expected(i) ==
    LET n == Nearest(rt.h_log[i].o)
        r == rt.h_log[i].fn
    IN IF n = NoNode THEN << Event("escaped", "host", r) >>
       ELSE [k \in 1..Len(rt.errorListeners[n]) |->
                Event("caught", n, Delivery(rt.errorListeners[n][k], r))]

\* C17: a panic of a function run under RunWithOwner or RunWithComputation
\* is handed to the error listeners of the nearest owner that has one,
\* starting at the running owner, and stops there: no listener of an owner
\* further up is called and the host does not see it; when no owner of the
\* chain has a listener the panic reaches the host.
PanicToNearest ==
    \A i \in Panics :
        /\ IsPrefix(Handling(i), Expected(i))
        /\ Idle(rt) => Handling(i) = Expected(i)

\* the body of the effect z, whose owner and whose parent owner in have no
\* listener, panicked in a flush: the two listeners of mid were called, the
\* listener of top was not, and the write returned to the host
PanicToNearestWitness ==
    /\ Idle(rt)
    /\ \E i \in Panics :
           /\ rt.h_log[i] = Event("panic", "z", "1")
           /\ Handling(i) = << Event("caught", "mid", "l1(1)"), Event("caught", "mid", "l2(1)") >>
    /\ rt.errorListeners["top"] # <<>>

\* C18: when RunWithOwner, RunWithComputation or RunUntracked exits, by a
\* return or by a panic, the tracker's owner, computation and tracking flag
\* are what they were on entry, and an error listener is called only after
\* they were put back; so between the calls of the host the tracker is as
\* NewTracker made it.
TrackerRestored ==
    /\ rt.h_bad \cap {"tracker not restored", "listener before restore"} = {}
    /\ Idle(rt) => rt.tracker = NewTracker

\* the function the body of v passed to Untrack panicked in a flush: the
\* panic left RunUntracked and RunWithComputation, the listeners of mid were
\* called, and the write returned to the host
TrackerRestoredWitness ==
    /\ Idle(rt)
    /\ \E i \in Panics :
           /\ rt.h_log[i] = Event("panic", "v", "2")
           /\ Len(Handling(i)) = 2
    /\ rt.tracker = NewTracker

\* ------------------------------------------------------------------- C19
\* the activations of Flush on the stack
FlushFrames == {i \in 1..Len(rt.stack) : rt.stack[i].k = "flush"}
\* the pass bodies the flush of activation i has started: Scheduler.Run
\* adds one to the clock right before each call of the pass body
PassBodies(i) == rt.scheduler.clock - rt.stack[i].h_clock
\* the flushes of the current host operation that failed
Failures == {i \in 1..Len(rt.h_log) : rt.h_log[i].ev = "failed"}
\* a flush is in progress while ls holds a value at which the effect lp
\* writes ls again: every pass re-arms the scheduled flag
Looping == InFlush(rt) /\ Value(rt, "ls") >= 1
\* the host's Write has ended with the error
Failed == Idle(rt) /\ Failures # {}

\* no flush starts more than LoopLimit pass bodies; a flush that fails has
\* run exactly LoopLimit of them, and its error is the infinite-loop error,
\* which leaves the host's Write
LoopBounded ==
    /\ \A i \in FlushFrames : rt.stack[i].pc # "enter" => PassBodies(i) <= LoopLimit
    /\ \A i \in Failures :
          /\ rt.h_log[i].fn = ToString(LoopLimit)
          /\ i < Len(rt.h_log)
          /\ rt.h_log[i + 1] = Event("escaped", "host", InfiniteLoop)
          /\ Idle(rt)
          /\ rt.h_op.kind = "write"

\* C19: when every pass of a flush re-arms the scheduled flag (the effect lp
\* keeps writing a new value to ls, which it reads), Scheduler.Run runs at
\* most LoopLimit pass bodies, and the flush ends: it fails with the
\* infinite-loop error, which propagates out of the Write that started it.
InfiniteLoopFails == []LoopBounded /\ (Looping ~> Failed)

\* a host Write has ended with the infinite-loop error after LoopLimit passes
InfiniteLoopFailsWitness ==
    /\ Failed
    /\ rt.h_op.kind = "write" /\ rt.h_op.chg
    /\ rt.h_log[Len(rt.h_log)] = Event("escaped", "host", InfiniteLoop)
    /\ Cardinality({i \in 1..Len(rt.h_log) : rt.h_log[i] = Event("run", "lp", "again")}) = LoopLimit

\* ------------------------------------------------------------------- C20
\* the number of flushes that failed before the current host operation
Earlier == rt.h_fails - Cardinality(Failures)
\* the current host operation is a value-changing Write of ls made after a
\* flush had failed
WriteAfterFailure == Earlier >= 1 /\ rt.h_op.kind = "write" /\ rt.h_op.sig = "ls" /\ rt.h_op.chg
\* the effect lp, the dependent of ls, has run in the current host operation
Recomputed == \E i \in 1..Len(rt.h_log) : rt.h_log[i] = Event("run", "lp", "again")

\* C20: after a flush has failed with the infinite-loop error the running
\* flag is false and the runtime mutex is free; a later value-changing Write
\* starts a new flush, and when that Write has ended its flush has run the
\* dependents of the signal.
UsableAfterLoop ==
    /\ Failures # {} => ~rt.scheduler.running /\ ~rt.mu
    /\ WriteAfterFailure =>
          IF Idle(rt) THEN Recomputed /\ ~rt.scheduler.running /\ ~rt.mu
          ELSE rt.stack[1].k = "flush" /\ (rt.stack[1].pc \notin {"enter", "settled"} => rt.scheduler.running)

\* a value-changing Write made after a failed flush has ended without an
\* error, and lp has run in it
UsableAfterLoopWitness ==
    /\ WriteAfterFailure
    /\ Idle(rt)
    /\ Failures = {}
    /\ Recomputed

\* ------------------------------------------------------------------- C21
\* the stages of Flush in which the body of Scheduler.Run is in progress
PassStages == {"loop", "drain", "commit", "render", "renderSettled", "user", "userSettled"}

\* C21: at most one flush body is in progress for a runtime: of the
\* activations of Flush on the stack only the outermost is in a stage of the
\* pass loop, and the running flag is set while it is.  A Flush entered
\* while another is running starts no pass: it does no drain, no commit and
\* runs no lane, it goes from its entry straight to the settled queue.
OneFlushBody ==
    /\ Cardinality({i \in FlushFrames : rt.stack[i].pc \in PassStages}) <= 1
    /\ \A i \in FlushFrames : rt.stack[i].pc \in PassStages => rt.scheduler.running
    /\ \A i, j \in FlushFrames :
          i < j => /\ rt.stack[j].pc \in {"enter", "settled", "topSettled"}
                   /\ rt.stack[j].count = 0
                   /\ rt.stack[i].pc \in {"render", "user"}

\* a Flush entered while the flush that runs the lanes is in progress has
\* come back from Scheduler.Run
OneFlushBodyWitness ==
    \E i, j \in FlushFrames :
        /\ i < j
        /\ rt.stack[i].pc = "user"
        /\ rt.stack[j].pc = "settled"
        /\ rt.scheduler.running
        /\ rt.scheduler.scheduled

\* ------------------------------------------------------------------- C22
\* a function of the program is running inside a lane of the flush
InLaneBody ==
    /\ ~Idle(rt)
    /\ Top(rt).k \in FnKinds
    /\ \E i \in FlushFrames : rt.stack[i].pc \in {"render", "user"}

\* event i of the history is a run of body c
RunOf(i, c) == rt.h_log[i].ev = "run" /\ rt.h_log[i].o = c

\* C22: the runtime mutex is not held while the effect bodies of a lane
\* run, so a Write made by an effect body takes it without waiting (no
\* activation ever waits for the mutex) and leaves its dependents in the
\* heap with the scheduler marked; they are handled by a further pass of
\* the same flush: when the host's Write has returned, nothing is left in
\* the heap and the reader uc of the signal ra wrote has run after ra.  The
\* flush holds the mutex again when the pass body has ended.
LaneWritesDontBlock ==
    /\ InLaneBody => ~rt.mu
    /\ \A i \in 1..Len(rt.stack) : rt.stack[i].k # "blocked"
    /\ (AtFlush({"loop", "drain", "commit"})) => rt.mu
    /\ (Idle(rt) /\ rt.h_op.kind = "write" /\ rt.h_op.chg) =>
          /\ ~rt.scheduler.scheduled
          /\ \A n \in LaneEffects : ~HasFlag(rt, n, "InHeap")
          /\ Value(rt, "lb") = Value(rt, "la")
          /\ \E i, j \in 1..Len(rt.h_log) : i < j /\ RunOf(i, "ra") /\ RunOf(j, "uc")
          /\ rt.h_obs.node = "uc"
          /\ rt.h_obs.vals = <<Value(rt, "la"), Value(rt, "la"), Value(rt, "la")>>

\* the body of ra, run from the render lane, has written lb: its reader
\* uc is in the heap, the scheduler is marked and the mutex is free
LaneWritesDontBlockWitness ==
    /\ InLaneBody
    /\ Top(rt).node = "ra"
    /\ Top(rt).list = <<>>
    /\ HasFlag(rt, "uc", "InHeap")
    /\ rt.scheduler.scheduled
    /\ ~rt.mu

\* ------------------------------------------------------------------- C25
\* the closures of lane typ among those enqueued in the pass, in the order
\* Effect.run enqueued them
LaneOf(typ) == SelectSeq(rt.h_pass.enq, LAMBDA e : EffectType(e) = typ)

\* C25: in a pass the bodies of the render lane run before the bodies of
\* the user lane, and the bodies of a lane run in the order their closures
\* were enqueued: what has run so far in the pass is the start of the render
\* closures followed by the user closures.
LaneOrder == IsPrefix(rt.h_pass.ran, LaneOf("render") \o LaneOf("user"))

\* a pass in which user and render closures were enqueued interleaved, and
\* all of them have run
LaneOrderWitness ==
    /\ rt.h_pass.enq = <<"ua", "ra", "rb", "ub">>
    /\ rt.h_pass.ran = <<"ra", "rb", "ua", "ub">>

\* ------------------------------------------------------------------- C26
\* the callbacks of queue q that a SettledQueue.Run in progress has taken
\* and not yet called
Taken(q) ==
    LET F == {i \in FlushFrames : rt.stack[i].pc = SettledPc(q)}
    IN IF F = {} THEN 0 ELSE Len(rt.stack[CHOOSE i \in F : TRUE].list)

\* every callback registered on queue q has run once, or waits for its run
OncePerRegistration(q) == rt.h_ran[q] + Taken(q) + Len(rt.settled[q]) = rt.h_reg[q]

\* a callback of OnSettled is about to run
SettledRuns == AtFlush({"topSettled"}) /\ Top(rt).list # <<>>

\* C26: a callback registered with OnSettled runs exactly once, at the end
\* of the next flush: when it runs, every pass chained by the writes of
\* effect bodies has finished (no flush loop is in progress, the scheduler
\* is not marked, no closure waits on a lane, no node is in the heap).
SettledAfterChained ==
    /\ OncePerRegistration("top")
    /\ SettledRuns =>
          /\ ~rt.scheduler.running
          /\ ~rt.scheduler.scheduled
          /\ FlushFrames = {Len(rt.stack)}
          /\ \A typ \in DOMAIN rt.effectQueue : rt.effectQueue[typ] = <<>>
          /\ \A n \in LaneEffects : ~HasFlag(rt, n, "InHeap")

\* ------------------------------------------------------------------- C27
\* a callback of OnRenderSettled, of OnUserSettled is about to run
RenderSettledRuns == AtFlush({"renderSettled"}) /\ Top(rt).list # <<>>
UserSettledRuns == AtFlush({"userSettled"}) /\ Top(rt).list # <<>>

\* C27: a callback of OnRenderSettled runs once, in the first pass after
\* its registration, when all the render closures of the pass have run and
\* no user closure has; a callback of OnUserSettled runs once, in the first
\* pass after its registration, when the user closures have run too.
\* Neither is left waiting when the pass goes on: the render queue is empty
\* once the user lane runs, both are empty when the pass body has ended,
\* whether or not the effect bodies chained a further pass.
LaneSettled ==
    /\ OncePerRegistration("render")
    /\ OncePerRegistration("user")
    /\ RenderSettledRuns => rt.h_pass.ran = LaneOf("render")
    /\ UserSettledRuns => rt.h_pass.ran = LaneOf("render") \o LaneOf("user")
    /\ \A i \in FlushFrames :
          /\ rt.stack[i].pc \in {"user", "userSettled"} => rt.settled.render = <<>>
          /\ (rt.stack[i].pc = "loop" /\ rt.stack[i].count >= 1) =>
                rt.settled.render = <<>> /\ rt.settled.user = <<>>

\* the callback of OnUserSettled is about to run in the first pass of a
\* flush, the callback of OnRenderSettled has run in that pass between the
\* render and the user bodies, and a further pass is chained
LaneSettledWitness ==
    /\ UserSettledRuns
    /\ Top(rt).count = 1
    /\ rt.scheduler.scheduled
    /\ \E i, j, k \in 1..Len(rt.h_log) :
          /\ i < j /\ j < k
          /\ RunOf(i, "rb")
          /\ rt.h_log[j] = Event("settled", "cr", "renderSettled")
          /\ RunOf(k, "ua")

\* ------------------------------------------------------------------- C28
NoDup(q) == \A i, j \in 1..Len(q) : i # j => q[i] # q[j]

\* C28: the closure of an effect is at most once on its lane (as queued by
\* Effect.run, and as taken by RunEffects), and the body of an effect runs
\* at most once in a pass.
ClosureOncePerLane ==
    /\ \A typ \in DOMAIN rt.effectQueue : NoDup(rt.effectQueue[typ])
    /\ \A i \in FlushFrames : rt.stack[i].pc \in {"render", "user"} => NoDup(rt.stack[i].list)
    /\ NoDup(rt.h_pass.ran)

\* ------------------------------------------------------------------- C29
\* C29: a node has FlagInHeap exactly when it is linked in one bucket of
\* the heap, and in no more than one (Insert of a node that has the flag
\* leaves the heap as it is, so no second entry is made).
FlagIffLinked ==
    \A c \in Computeds :
        /\ HasFlag(rt, c, "InHeap") <=> Buckets(rt, c) # {}
        /\ Cardinality(Buckets(rt, c)) <= 1
        /\ \A h \in Buckets(rt, c) :
              Len(SelectSeq(rt.heap.nodes[h], LAMBDA x : x = c)) = 1

\* ------------------------------------------------------------------- C30
\* C30: when Drain has returned (the pass body is at its commit) the heap
\* is empty, the nodes inserted during the drain included, and no node has
\* FlagInHeap.
DrainEmpties ==
    AtFlush({"commit"}) =>
        /\ \A h \in DOMAIN rt.heap.nodes : rt.heap.nodes[h] = <<>>
        /\ \A c \in Computeds : ~HasFlag(rt, c, "InHeap")

\* ------------------------------------------------------------------- C23
\* the stack of goroutine g
StackOf(g) == IF rt.g = g THEN rt.stack ELSE rt.parked.stack

\* the number of events ev of object o in the history
CountOf(ev, o) == Cardinality({i \in 1..Len(rt.h_log) : rt.h_log[i].ev = ev /\ rt.h_log[i].o = o})

\* C23: the other goroutine writes 1, 2, ... to gn, which the effect en
\* created by the main goroutine reads.  The body of en runs once per
\* write and in the order of the writes: its k-th run reads k - 1, the value
\* just written, and when the writer is between two calls en has run once
\* more than gn was written.  The cleanup the previous run registered runs
\* right before each re-run.
OncePerGoWrite ==
    /\ rt.h_obs.node = "en" => rt.h_obs.vals = <<CountOf("run", "en") - 1>>
    /\ ("gn" \in rt.spawned /\ StackOf(OtherGID) = <<>>) =>
          /\ CountOf("run", "en") = Value(rt, "gn") + 1
          /\ CountOf("cleanup", "en") = Value(rt, "gn")
    /\ \A i \in 1..Len(rt.h_log) :
          (RunOf(i, "en") /\ rt.h_log[i].fn = "again") =>
              i > 1 /\ rt.h_log[i - 1] = Event("cleanup", "en", "cn")

\* the other goroutine has written GoMax values, en has run for each
OncePerGoWriteWitness ==
    /\ Value(rt, "gn") = GoMax
    /\ StackOf(OtherGID) = <<>>
    /\ CountOf("run", "en") = GoMax + 1
    /\ CountOf("run", "ea") >= 2

\* ------------------------------------------------------------------- C24
\* C24: the other goroutine reads and writes gb, which the effect ea never
\* read, while the main goroutine creates ea and writes ga, in every
\* interleaving: ea gets no link to gb, its body never runs on the other
\* goroutine, and it runs once at its creation and once for each
\* value-changing write of ga, never more.
GoIsolation ==
    /\ "gb" \notin Range(rt.deps["ea"])
    /\ "ea" \notin Range(rt.subs["gb"])
    /\ \A i \in 1..Len(StackOf(OtherGID)) : StackOf(OtherGID)[i].node # "ea"
    /\ CountOf("run", "ea") <=
          1 + Cardinality({i \in 1..Len(rt.h_log) : rt.h_log[i] = Event("write", "ga", "changed")})
    /\ (StackOf(MainGID) = <<>>) =>
          CountOf("run", "ea") =
              1 + Cardinality({i \in 1..Len(rt.h_log) : rt.h_log[i] = Event("write", "ga", "changed")})

\* the other goroutine has read and written gb while the body of ea was
\* running on the main goroutine, and ea has run again after that
GoIsolationWitness ==
    /\ Value(rt, "gb") = GoMax
    /\ rt.h_read.sig = "gb"
    /\ StackOf(MainGID) = <<>>
    /\ CountOf("run", "ea") = 2

\* ------------------------------------------------------------------- C31
\* the step is a call Write(v) on a signal whose effective value is v, made
\* by the host, by the body of an effect or by a function run in a batch
EqualWrite ==
    \E s \in LaneSignals, v \in LaneVals :
        /\ Value(rt, s) = v
        /\ \/ s = "la" /\ LaneWrite(v)
           \/ BodyWrite /\ Head(Top(rt).list) = <<s, v>>

\* what a Write leaves alone when it returns at once
WriteFrame ==
    /\ rt'.pendingValue = rt.pendingValue
    /\ rt'.value = rt.value
    /\ rt'.version = rt.version
    /\ rt'.heap = rt.heap
    /\ rt'.flags = rt.flags
    /\ rt'.scheduler = rt.scheduler
    /\ rt'.effectQueue = rt.effectQueue
    /\ rt'.nodeQueue = rt.nodeQueue
    /\ rt'.batcher = rt.batcher
    /\ rt'.mu = rt.mu
    /\ rt'.deps = rt.deps /\ rt'.subs = rt.subs /\ rt'.height = rt.height
    /\ Len(rt'.stack) = Len(rt.stack)

\* C31: Write(v) on a signal whose effective value (the pending value if
\* there is one, else the committed value) equals v changes nothing: the
\* pending value, the version, the heap, the scheduled flag and the clock
\* are what they were, no flush starts and no memo or effect runs.
NoOpWrite == [][EqualWrite => WriteFrame]_vars

\* the host has written to a signal that has subscribers the value it
\* held, a pending value that differs from the committed one, and nothing ran
NoOpWriteWitness ==
    /\ Idle(rt)
    /\ rt.h_op.kind = "write" /\ ~rt.h_op.chg
    /\ rt.subs[rt.h_op.sig] # <<>>
    /\ rt.pendingValue[rt.h_op.sig] # <<>>
    /\ rt.pendingValue[rt.h_op.sig][1] # rt.value[rt.h_op.sig]
    /\ \A c \in Computeds : rt.h_runs[c] = 0

\* ------------------------------------------------------------------- C32
\* the step is the return of a recompute of a memo whose compute function
\* gave the value the memo held
SameValueReturn ==
    /\ BodyReturn
    /\ Top(rt).node \in MemoMemos
    /\ Top(rt).rec
    /\ Top(rt).old = Compute(rt, Top(rt).node)

\* the current host operation is a value-changing Write of pc that leaves
\* the value of pa what it was
SameMemoWrite ==
    /\ rt.h_op.kind = "write" /\ rt.h_op.sig = "pc" /\ rt.h_op.chg
    /\ (rt.h_op.n >= 1) = (Value(rt, "pc") >= 1)

\* a Write of pc that changes pa runs pb and pe once; one that leaves the
\* value of pa the same inserts and runs neither
MemoQuiet ==
    /\ SameMemoWrite =>
          /\ ~HasFlag(rt, "pb", "InHeap") /\ ~HasFlag(rt, "pe", "InHeap")
          /\ CountOf("run", "pb") = 0 /\ CountOf("run", "pe") = 0
    /\ (Idle(rt) /\ rt.h_op.kind = "write" /\ rt.h_op.sig = "pc" /\ rt.h_op.chg) =>
          /\ CountOf("run", "pa") = 1
          /\ ~SameMemoWrite => CountOf("run", "pb") = 1 /\ CountOf("run", "pe") = 1

\* C32: when a memo is recomputed and its new value equals its previous
\* value, the recompute inserts none of its subscribers in the heap (heap
\* and flags are the same after it), so a subscriber that depends only on
\* that memo, and the subscribers of that subscriber, do not run again.
UnchangedMemoStops ==
    /\ []MemoQuiet
    /\ [][SameValueReturn => (rt'.heap = rt.heap /\ rt'.flags = rt.flags)]_vars

\* the host changed pc from 1 to 2: pa, which has the subscriber pb, was
\* recomputed to the same value and pb did not run
UnchangedMemoStopsWitness ==
    /\ Idle(rt)
    /\ SameMemoWrite
    /\ rt.h_op.n = 1 /\ Value(rt, "pc") = 2
    /\ CountOf("run", "pa") = 1
    /\ "pb" \in Range(rt.subs["pa"])
    /\ Range(rt.deps["pb"]) = {"pa"}
    /\ CountOf("run", "pb") = 0

\* ------------------------------------------------------------------- C33
\* an activation of RunUntracked is on the stack
InUntracked == \E i \in 1..Len(rt.stack) : rt.stack[i].k = "untracked"

\* C33: a Read made while Untrack(fn) runs inside a memo (pm) or an effect
\* (pv) links nothing to that computation, whether a signal (pu) or a memo
\* (pa) is read, so a Write of pu runs nothing; tracking is off while fn
\* runs and on again when Untrack has returned: the read of pt that follows
\* is linked, and a Write of pt runs pm and pv again.
UntrackedReads ==
    /\ \A c \in {"pm", "pv"} :
          /\ Range(rt.deps[c]) \subseteq {"pt"}
          /\ c \notin Range(rt.subs["pu"]) \cup Range(rt.subs["pa"])
          /\ (Idle(rt) /\ c \in rt.created) => rt.deps[c] = <<"pt">>
    /\ rt.tracker.tracking = ~InUntracked
    /\ (rt.h_op.kind = "write" /\ rt.h_op.sig = "pu") =>
          /\ \A c \in Computeds : CountOf("run", c) = 0 /\ ~HasFlag(rt, c, "InHeap")
          /\ \A typ \in DOMAIN rt.effectQueue : rt.effectQueue[typ] = <<>>
    /\ (Idle(rt) /\ rt.h_op.kind = "write" /\ rt.h_op.sig = "pt" /\ rt.h_op.chg) =>
          CountOf("run", "pm") = 1 /\ CountOf("run", "pv") = 1

\* the host has changed pu, which pm and pv read under Untrack: nothing
\* ran, the value of pm is no longer pu + pt, and both are linked to pt
UntrackedReadsWitness ==
    /\ Idle(rt)
    /\ rt.h_op.kind = "write" /\ rt.h_op.sig = "pu" /\ rt.h_op.chg
    /\ Value(rt, "pm") # Value(rt, "pu") + Value(rt, "pt")
    /\ rt.deps["pm"] = <<"pt">> /\ rt.deps["pv"] = <<"pt">>
    /\ rt.subs["pu"] = <<>>

\* ------------------------------------------------------------------- C34
\* C34: no function of the program that the runtime calls while Flush
\* holds the runtime mutex waits for that mutex: a Write made by the compute
\* function of a memo during the drain, or by a callback of OnSettled, takes
\* the mutex and returns (the goroutine that waits is the one that holds the
\* mutex, so a wait never ends).
NoCallbackBlocks == \A i \in 1..Len(rt.stack) : rt.stack[i].k # "blocked"

\* ------------------------------------------------------------------- C38
\* C38: a callback registered from inside a settled callback, while its
\* queue is being run, does not run in that run and replaces no callback
\* that was queued (what the run has left to call is what it took, in
\* order); every registered callback has run once or waits for the next
\* run of its queue.
RegisteredInCallback ==
    /\ \A q \in {"top", "user", "render"} : OncePerRegistration(q)
    /\ \A i \in FlushFrames :
          rt.stack[i].pc \in {"topSettled", "userSettled", "renderSettled"} =>
              rt.stack[i].list =
                  SubSeq(rt.stack[i].h_taken, rt.stack[i].base + 1, Len(rt.stack[i].h_taken))

\* ------------------------------------------------------------------- C37
\* the flush activations below the running one that are inside the
\* scheduler loop (between the compare-and-swap of running and its reset)
OuterLoops ==
    {i \in FlushFrames : i < Len(rt.stack) /\ rt.stack[i].pc \notin {"enter", "topSettled"}}

\* C37: top-level OnSettled callbacks never run while a flush is in
\* progress: when one is about to run, the scheduler is not running and no
\* activation of Flush further down the stack is inside its loop (a Flush
\* entered while the scheduler runs does not run them).
SettledOutsideLoop ==
    SettledRuns => (~rt.scheduler.running /\ OuterLoops = {})

\* ------------------------------------------------------------------- C36
\* the node the next turn of Drain's inner loop takes
DrainNode == Head(rt.heap.nodes[Lowest(Pending(rt))])

\* C36: every turn of Drain's inner loop takes a node that an Insert linked
\* (it has FlagInHeap: one turn for one insertion), and Remove unlinks it
\* from the bucket it is in, whatever its height has become since, so that
\* the turn leaves the node in no bucket and the loop over the bucket ends.
RemoveUnlinks ==
    [][DrainStep => (HasFlag(rt, DrainNode, "InHeap") /\ Buckets(rt', DrainNode) = {})]_vars

\* ------------------------------------------------------------------- C35
\* C35: on every exit path of Flush (return, InfiniteLoop, a panic that no
\* owner catches, raised in the drain or in an effect lane) the mutex is
\* released exactly once: Flush never unlocks a mutex that is not held, and
\* when no call is in progress the mutex is free.
FlushUnlocksOnce ==
    /\ "unlock of unlocked mutex" \notin rt.h_bad
    /\ Idle(rt) => ~rt.mu


\* ------------------------------------------------------------------- C39
\* the function of node c is executing on the goroutine with this stack
Executing(stack, c) ==
    \E i \in 1..Len(stack) : stack[i].k = "body" /\ stack[i].node = c

\* C39: the body of an effect, and the compute function of a memo, is
\* never executing on two goroutines at the same time, whatever signals
\* the goroutines write.
OneGoroutinePerBody ==
    \A c \in RaceMemos \cup RaceEffects :
        ~(Executing(rt.stack, c) /\ Executing(rt.parked.stack, c))


\* ------------------------------------------------------------------- C40
\* C40: every node inserted into or removed from the heap has a height
\* smaller than the bucket count, whatever graph the program builds: no
\* Insert or Remove has indexed outside the bucket array, and every node
\* with FlagInHeap has a height that is an index of the array.
HeightsInRange ==
    /\ IndexOutOfRange \notin rt.h_bad
    /\ \A c \in Computeds : HasFlag(rt, c, "InHeap") => rt.height[c] \in DOMAIN rt.heap.nodes

====
